---- MODULE Spec2Model ----
(***************************************************************************)
(* Model of the linear-algebra library of game-engine/src/mathematics.rs:  *)
(* Vector2/3/4, Complex, Dual and Matrix2/3/4 with their operators.        *)
(*                                                                         *)
(* Numbers.  An f32 is modelled as an exact rational <<n, d>> in lowest    *)
(* terms with d > 0, extended with the IEEE special values                 *)
(*     +Inf = <<1, 0>>,   -Inf = <<-1, 0>>,   NaN = <<0, 0>>.              *)
(* Rounding and the sign of zero are not modelled: an equality of the      *)
(* model stands for an equality up to rounding of the f32 computation, and *)
(* it is exact whenever every intermediate value is representable (small   *)
(* integers, halves, quarters).  Division by zero, Inf and NaN behave as   *)
(* in IEEE 754.  A square root that is not rational is kept exactly as     *)
(* <<n, d, k>>, the value (n/d) * sqrt(k) with k > 1 square-free, and an   *)
(* angle in radians as <<q, n, d, k>>, the value q * pi/2 + atan(t) with   *)
(* t = (n/d) * sqrt(k) >= 0.                                               *)
(*                                                                         *)
(* Arrays.  A Rust array [a, b, c] is the function on 0..2, so e[i][j] in  *)
(* the model is e[i][j] of the source.  A matrix value is its field e.     *)
(* Vectors, Complex and Dual are records with the source's field names.    *)
(***************************************************************************)
EXTENDS Integers, Sequences, FiniteSets, TLC

VARIABLES
    ctor,   \* the constructor call that built self: [kind |-> name, args |-> inputs]
    self,   \* the value under test, as built by ctor
    op,     \* the operation last applied to self ("none" right after construction)
    arg,    \* the arguments of that operation
    res     \* the value that operation returned

vars == <<ctor, self, op, arg, res>>

----------------------------------------------------------------------------
(* Bounds of the model *)

\* entries of the Matrix2 inputs, and components of the scalar pairs, range over -MaxEntry..MaxEntry
MaxEntry == 2
\* the rows of the Matrix3 and Matrix4 inputs are drawn from the first NumRows rows of RowPool
NumRows == 4
\* components of the right-hand operand of a binary vector operator range over -MaxOperand..MaxOperand
MaxOperand == 1
\* the indices handed to row, column, minor and cofactor range over 0..MaxIndex
MaxIndex == 4

----------------------------------------------------------------------------
(* f32 arithmetic *)

Abs(n) == IF n < 0 THEN -n ELSE n

Sgn(n) == IF n < 0 THEN -1 ELSE IF n > 0 THEN 1 ELSE 0

RECURSIVE GCD(_, _)
GCD(a, b) == IF b = 0 THEN a ELSE GCD(b, a % b)

\* the value n/d: lowest terms, positive denominator; n/0 is +Inf, -Inf or NaN by the sign of n
Rat(n, d) ==
    IF d = 0 THEN <<Sgn(n), 0>>
    ELSE LET g == GCD(Abs(n), Abs(d))
             s == IF d < 0 THEN -1 ELSE 1
         IN  <<(s * n) \div g, (s * d) \div g>>

F(n) == <<n, 1>>

NaN  == <<0, 0>>
PInf == <<1, 0>>
NInf == <<-1, 0>>

IsNaN(a)    == a = NaN
IsFinite(a) == a[2] # 0

\* the largest s with s * s dividing k, for k > 0: trial division from p upwards
RECURSIVE SquarePart(_, _)
SquarePart(k, p) ==
    IF p * p > k THEN 1
    ELSE IF k % (p * p) = 0 THEN p * SquarePart(k \div (p * p), p)
    ELSE SquarePart(k, p + 1)

\* r * sqrt(m) for a finite rational r and a square-free m >= 1
SurdOf(r, m) == IF m = 1 \/ r[1] = 0 THEN r ELSE <<r[1], r[2], m>>

\* the value (n/d) * sqrt(k) for d # 0 and k >= 0, with the squares taken out of the root
Surd(n, d, k) ==
    IF k = 0 THEN F(0)
    ELSE SurdOf(Rat(n * SquarePart(k, 2), d),
                k \div (SquarePart(k, 2) * SquarePart(k, 2)))

\* the k of (n/d) * sqrt(k); 1 for a rational
Radicand(a) == IF Len(a) = 3 THEN a[3] ELSE 1

FNeg(a) == IF Len(a) = 3 THEN <<-a[1], a[2], a[3]>> ELSE <<-a[1], a[2]>>

\* a sum of two roots is kept only when it is again (n/d) * sqrt(k)
FAdd(a, b) ==
    IF Len(a) = 2 /\ Len(b) = 2
    THEN IF a[2] = 0 /\ b[2] = 0
         THEN (IF a = b THEN a ELSE NaN)     \* Inf + Inf = Inf, Inf - Inf = NaN, NaN + x = NaN
         ELSE Rat(a[1] * b[2] + b[1] * a[2], a[2] * b[2])
    ELSE CASE b = F(0) -> a
           [] a = F(0) -> b
           [] a[2] = 0 -> a
           [] b[2] = 0 -> b
           [] a[2] # 0 /\ b[2] # 0 /\ Radicand(a) = Radicand(b) ->
                 Surd(a[1] * b[2] + b[1] * a[2], a[2] * b[2], Radicand(a))

FSub(a, b) == FAdd(a, FNeg(b))

FMul(a, b) ==
    IF Len(a) = 2 /\ Len(b) = 2
    THEN Rat(a[1] * b[1], a[2] * b[2])      \* 0 * Inf = NaN
    ELSE IF a[2] = 0 \/ b[2] = 0
    THEN <<Sgn(a[1]) * Sgn(b[1]), 0>>
    ELSE Surd(a[1] * b[1], a[2] * b[2], Radicand(a) * Radicand(b))

FRecip(a) ==
    IF Len(a) = 3 THEN Surd(a[2], a[1] * a[3], a[3])
    ELSE IF a[1] = 0 THEN (IF a[2] = 0 THEN NaN ELSE PInf)
    ELSE IF a[1] > 0 THEN <<a[2], a[1]>> ELSE <<-a[2], -a[1]>>

FDiv(a, b) == FMul(a, FRecip(b))                \* x / 0 = +-Inf, 0 / 0 = NaN

\* the == of f32: NaN is equal to nothing, itself included
FEq(a, b) == ~IsNaN(a) /\ ~IsNaN(b) /\ a = b

\* f32::signum: 1.0 for a positive number and for 0.0, -1.0 for a negative one, NaN for NaN
FSignum(a) == IF IsNaN(a) THEN NaN ELSE IF a[1] < 0 THEN F(-1) ELSE F(1)

\* f32::sqrt of a rational: NaN below zero, exact otherwise
FSqrt(a) ==
    CASE Len(a) = 2 ->
        IF IsNaN(a) \/ a[1] < 0 THEN NaN
        ELSE IF a[2] = 0 THEN PInf
        ELSE Surd(1, a[2], a[1] * a[2])

\* q <= 1 for a finite q > 0
LeOne(q) == q[1] <= q[2] /\ q[1] * q[1] * Radicand(q) <= q[2] * q[2]

\* the <= of f32: false as soon as one side is NaN
FLe(a, b) ==
    IF IsNaN(a) \/ IsNaN(b) THEN FALSE
    ELSE IF a = b THEN TRUE
    ELSE IF a[2] = 0 THEN a = NInf
    ELSE IF b[2] = 0 THEN b = PInf
    ELSE IF Sgn(a[1]) # Sgn(b[1]) THEN Sgn(a[1]) < Sgn(b[1])
    ELSE IF a[1] > 0 THEN LeOne(FDiv(a, b))
    ELSE ~LeOne(FDiv(a, b))

\* std::f32::EPSILON, the gap between 1.0 and the next f32: 2^-23
EPSILON == Rat(1, 8388608)

\* the angle q * pi/2 + atan(t), for a quarter count q and a finite t >= 0
Angle(q, t) == <<q, t[1], t[2], Radicand(t)>>

\* f32::acos: NaN outside [-1, 1], otherwise the angle in [0, pi] whose cosine is x
FAcos(x) ==
    IF x[2] = 0 THEN NaN
    ELSE LET xx == FMul(x, x)
         IN  IF xx[1] > xx[2] THEN NaN
             ELSE LET y == FSqrt(FSub(F(1), xx))
                  IN  IF x[1] > 0 THEN Angle(0, FDiv(y, x))
                      ELSE IF x[1] = 0 THEN Angle(1, F(0))
                      ELSE IF y = F(0) THEN Angle(2, F(0))
                      ELSE Angle(1, FDiv(FNeg(x), y))

\* f32::atan2(y, x) for finite y and x: the angle in (-pi, pi] of the point (x, y)
FAtan2(y, x) ==
    IF IsNaN(y) \/ IsNaN(x) THEN NaN
    ELSE IF x[1] > 0 /\ y[1] >= 0 THEN Angle(0, FDiv(y, x))
    ELSE IF x[1] <= 0 /\ y[1] > 0 THEN Angle(1, FDiv(FNeg(x), y))
    ELSE IF x[1] < 0 /\ y[1] = 0 THEN Angle(2, F(0))
    ELSE IF x[1] < 0 /\ y[1] < 0 THEN Angle(-2, FDiv(y, x))
    ELSE IF x[1] >= 0 /\ y[1] < 0 THEN Angle(-1, FDiv(x, FNeg(y)))
    ELSE Angle(0, F(0))

\* TAU, a whole turn: four quarters
TAU == Angle(4, F(0))

\* angle < 0.0 and angle + TAU for an angle of the model
AngleNegative(a) == Len(a) = 4 /\ a[1] < 0
AnglePlus(a, b)  == IF Len(a) = 4 /\ b[2] = 0 THEN <<a[1] + b[1], a[2], a[3], a[4]>> ELSE NaN

\* cos(atan(t)) = 1 / sqrt(1 + t * t) and sin(atan(t)) = t * cos(atan(t)), for the t of an angle
CosAtan(a) == FRecip(FSqrt(FAdd(F(1), FMul(Surd(a[2], a[3], a[4]), Surd(a[2], a[3], a[4])))))
SinAtan(a) == FMul(Surd(a[2], a[3], a[4]), CosAtan(a))

\* f32::cos and f32::sin of the angle q * pi/2 + atan(t): each quarter turn maps
\* (cos, sin) to (-sin, cos)
FCos(a) ==
    CASE a[1] % 4 = 0 -> CosAtan(a)
      [] a[1] % 4 = 1 -> FNeg(SinAtan(a))
      [] a[1] % 4 = 2 -> FNeg(CosAtan(a))
      [] a[1] % 4 = 3 -> SinAtan(a)

FSin(a) ==
    CASE a[1] % 4 = 0 -> SinAtan(a)
      [] a[1] % 4 = 1 -> CosAtan(a)
      [] a[1] % 4 = 2 -> FNeg(SinAtan(a))
      [] a[1] % 4 = 3 -> FNeg(CosAtan(a))

\* a Rust array literal: the function on 0..Len(s)-1
Arr(s) == [k \in 0..(Len(s) - 1) |-> s[k + 1]]

\* a[0] + a[1] + ... + a[n-1], summed left to right
RECURSIVE FSum(_, _)
FSum(a, n) == IF n = 1 THEN a[0] ELSE FAdd(FSum(a, n - 1), a[n - 1])

----------------------------------------------------------------------------
(* Construction *)

Vector2_new(a, b)       == [x |-> a, y |-> b]
Vector3_new(a, b, c)    == [x |-> a, y |-> b, z |-> c]
Vector4_new(a, b, c, d) == [x |-> a, y |-> b, z |-> c, w |-> d]
Complex_new(a, b)       == [r |-> a, i |-> b]
Dual_new(a, b)          == [r |-> a, e |-> b]

\* the constructors take the entries row by row and store them column by column
Matrix2_new(a, b, c, d) ==
    Arr(<< Arr(<<a, c>>),
           Arr(<<b, d>>) >>)

Matrix3_new(a, b, c, d, e, f, g, h, i) ==
    Arr(<< Arr(<<a, d, g>>),
           Arr(<<b, e, h>>),
           Arr(<<c, f, i>>) >>)

Matrix4_new(a, b, c, d, e, f, g, h, i, j, k, l, m, n, o, p) ==
    Arr(<< Arr(<<a, e, i, m>>),
           Arr(<<b, f, j, n>>),
           Arr(<<c, g, k, o>>),
           Arr(<<d, h, l, p>>) >>)

\* the dimension N of a MatrixN value
Dim(m) == Cardinality(DOMAIN m)

\* a constructor that keeps the argument order: e[r][c] is the list entry at row r, column c
MatrixN_new_row_major(l) ==
    LET N == IF Cardinality(DOMAIN l) = 4 THEN 2
             ELSE IF Cardinality(DOMAIN l) = 9 THEN 3 ELSE 4
    IN  [r \in 0..(N - 1) |-> [c \in 0..(N - 1) |-> l[N * r + c]]]

\* MatrixN::new applied to the N*N arguments l[0], l[1], ..., in the order they are written
MatrixN_new(l) ==
    IF Cardinality(DOMAIN l) = 4
    THEN Matrix2_new(l[0], l[1], l[2], l[3])
    ELSE IF Cardinality(DOMAIN l) = 9
    THEN Matrix3_new(l[0], l[1], l[2], l[3], l[4], l[5], l[6], l[7], l[8])
    ELSE Matrix4_new(l[0], l[1], l[2], l[3], l[4], l[5], l[6], l[7],
                     l[8], l[9], l[10], l[11], l[12], l[13], l[14], l[15])

\* VectorN::new applied to the N arguments a[0], a[1], ...
VectorN_new(a) ==
    IF Cardinality(DOMAIN a) = 2 THEN Vector2_new(a[0], a[1])
    ELSE IF Cardinality(DOMAIN a) = 3 THEN Vector3_new(a[0], a[1], a[2])
    ELSE Vector4_new(a[0], a[1], a[2], a[3])

\* the components of a vector in declaration order x, y, z, w
Components(v) ==
    IF DOMAIN v = {"x", "y"} THEN Arr(<<v.x, v.y>>)
    ELSE IF DOMAIN v = {"x", "y", "z"} THEN Arr(<<v.x, v.y, v.z>>)
    ELSE Arr(<<v.x, v.y, v.z, v.w>>)

\* a from_vectorN that hands the components over as new(a.x, b.x, .., a.y, b.y, ..)
from_vectorN_interleaved(vs) ==
    LET N == Cardinality(DOMAIN vs)
    IN  MatrixN_new([k \in 0..(N * N - 1) |-> Components(vs[k % N])[k \div N]])

\* from_vector2 / from_vector3 / from_vector4: new(a.x, a.y, .., b.x, b.y, ..)
from_vectorN(vs) ==
    LET N == Cardinality(DOMAIN vs)
    IN  MatrixN_new([k \in 0..(N * N - 1) |-> Components(vs[k \div N])[k % N]])

----------------------------------------------------------------------------
(* Field interpretation and read functions *)

row(m, n)    == VectorN_new([k \in 0..(Dim(m) - 1) |-> m[n][k]])

column(m, n) == VectorN_new([k \in 0..(Dim(m) - 1) |-> m[k][n]])

diagonal(m)  == VectorN_new([k \in 0..(Dim(m) - 1) |-> m[k][k]])

\* self.e[n][0] in row, self.e[0][n] in column: an index n >= N is out of the
\* bounds of the array, and the indexing panics
row_panics(m, n)    == n >= Dim(m)
column_panics(m, n) == n >= Dim(m)

\* the floats read through the pointer to e[0][0]: the nested array is contiguous
as_ptr(m) == [k \in 0..(Dim(m) * Dim(m) - 1) |-> m[k \div Dim(m)][k % Dim(m)]]

----------------------------------------------------------------------------
(* Prefabrication *)

Matrix_zero(N) == MatrixN_new([k \in 0..(N * N - 1) |-> F(0)])

Matrix_identity(N) ==
    MatrixN_new([k \in 0..(N * N - 1) |-> IF k \div N = k % N THEN F(1) ELSE F(0)])

Matrix4_scale_uniform(t) ==
    Matrix4_new(t, F(0), F(0), F(0),
                F(0), t, F(0), F(0),
                F(0), F(0), t, F(0),
                F(0), F(0), F(0), F(1))

Matrix4_translation(v) ==
    Matrix4_new(F(1), F(0), F(0), v.x,
                F(0), F(1), F(0), v.y,
                F(0), F(0), F(1), v.z,
                F(0), F(0), F(0), F(1))

Matrix4_rotation_x(t) ==
    LET cos == FCos(t)
        sin == FSin(t)
    IN  Matrix4_new(F(1), F(0), F(0),     F(0),
                    F(0), cos,  FNeg(sin), F(0),
                    F(0), sin,  cos,      F(0),
                    F(0), F(0), F(0),     F(1))

Matrix4_rotation_y(t) ==
    LET cos == FCos(t)
        sin == FSin(t)
    IN  Matrix4_new(cos,       F(0), sin,  F(0),
                    F(0),      F(1), F(0), F(0),
                    FNeg(sin), F(0), cos,  F(0),
                    F(0),      F(0), F(0), F(1))

\* the third row of the argument list is 0.0, 0.0, 0.0, 0.0 in the source
Matrix4_rotation_z(t) ==
    LET cos == FCos(t)
        sin == FSin(t)
    IN  Matrix4_new(cos,  FNeg(sin), F(0), F(0),
                    sin,  cos,       F(0), F(0),
                    F(0), F(0),      F(0), F(0),
                    F(0), F(0),      F(0), F(1))

\* the axis-angle constructor: the axis v is used as given, it is not normalized
Matrix4_rotation(t, v) ==
    LET cos  == FCos(t)
        sin  == FSin(t)
        d    == FSub(F(1), cos)
        x    == FMul(v.x, d)
        y    == FMul(v.y, d)
        z    == FMul(v.z, d)
        vxvy == FMul(x, v.y)
        vxvz == FMul(x, v.z)
        vyvz == FMul(y, v.z)
    IN  Matrix4_new(
            FAdd(cos, FMul(x, v.x)),       FSub(vxvy, FMul(sin, v.z)), FAdd(vxvz, FMul(sin, v.y)), F(0),
            FAdd(vxvy, FMul(sin, v.z)),    FAdd(cos, FMul(y, v.y)),    FSub(vyvz, FMul(sin, v.x)), F(0),
            FSub(vxvz, FMul(sin, v.y)),    FAdd(vyvz, FMul(sin, v.x)), FAdd(cos, FMul(z, v.z)),    F(0),
            F(0),                          F(0),                       F(0),                       F(1))

----------------------------------------------------------------------------
(* Arithmetic *)

\* Add / Sub / Mul<f32> / f32 * v for Vector2, Vector3, Vector4: component by component
Vector_add(a, b)   == [k \in DOMAIN a |-> FAdd(a[k], b[k])]
Vector_sub(a, b)   == [k \in DOMAIN a |-> FSub(a[k], b[k])]
Vector_mul_f32(a, s) == [k \in DOMAIN a |-> FMul(a[k], s)]
f32_mul_Vector(s, v) == [k \in DOMAIN v |-> FMul(v[k], s)]

\* Neg for Vector2, Vector3, Vector4
Vector_neg(a) == [k \in DOMAIN a |-> FNeg(a[k])]

\* Div<f32> for vectors: let t = 1.0 / s; Self::new(self.x, ..) * t
Vector_div_f32(a, s) ==
    LET t == FDiv(F(1), s)
    IN  Vector_mul_f32(VectorN_new(Components(a)), t)

\* AddAssign, SubAssign, MulAssign<f32> for vectors: the value of self after the call
Vector_add_assign(a, v) == [k \in DOMAIN a |-> FAdd(a[k], v[k])]
Vector_sub_assign(a, v) == [k \in DOMAIN a |-> FSub(a[k], v[k])]
Vector_mul_assign(a, s) == [k \in DOMAIN a |-> FMul(a[k], s)]

\* a /= s that multiplies by s instead of by 1.0 / s
Vector_div_assign_by_s(a, s) == [k \in DOMAIN a |-> FMul(a[k], s)]

\* DivAssign<f32> for vectors: let t = 1.0 / s; self.x *= t; ..
Vector_div_assign(a, s) ==
    LET t == FDiv(F(1), s)
    IN  [k \in DOMAIN a |-> FMul(a[k], t)]

\* Mul<VectorN> for VectorN, the dot product: self.x * v.x + self.y * v.y + ..
Vector_dot(a, v) ==
    LET N == Cardinality(DOMAIN a)
    IN  FSum([k \in 0..(N - 1) |-> FMul(Components(a)[k], Components(v)[k])], N)

\* Div<Vector2> for Vector2, the z of the cross product
Vector2_cross(a, v) == FSub(FMul(a.x, v.y), FMul(a.y, v.x))

\* a cross product whose y component has its two terms exchanged
Vector3_cross_y_slip(a, v) ==
    Vector3_new(FSub(FMul(a.y, v.z), FMul(v.y, a.z)),
                FSub(FMul(a.x, v.z), FMul(v.x, a.z)),
                FSub(FMul(a.x, v.y), FMul(v.x, a.y)))

\* Div<Vector3> for Vector3, the cross product
Vector3_cross(a, v) ==
    Vector3_new(FSub(FMul(a.y, v.z), FMul(v.y, a.z)),
                FSub(FMul(v.x, a.z), FMul(a.x, v.z)),
                FSub(FMul(a.x, v.y), FMul(v.x, a.y)))

\* Mul<f32> for MatrixN: new(e[0][0] * s, e[0][1] * s, ..)
Matrix_mul_f32(m, s) ==
    LET N == Dim(m)
    IN  MatrixN_new([k \in 0..(N * N - 1) |-> FMul(m[k \div N][k % N], s)])

\* Mul<MatrixN> for f32: new(m.e[0][0] * self, m.e[0][1] * self, ..)
f32_mul_Matrix(s, m) ==
    LET N == Dim(m)
    IN  MatrixN_new([k \in 0..(N * N - 1) |-> FMul(m[k \div N][k % N], s)])

\* Mul<MatrixN> for MatrixN: argument N*r + c of new is the sum over k of self.e[r][k] * m.e[k][c]
Matrix_mul(a, m) ==
    LET N == Dim(a)
    IN  MatrixN_new([p \in 0..(N * N - 1) |->
            FSum([k \in 0..(N - 1) |-> FMul(a[p \div N][k], m[k][p % N])], N)])

\* Div<f32> for MatrixN
Matrix_div_f32(m, s) ==
    LET t == FDiv(F(1), s)
    IN  Matrix_mul_f32(m, t)

\* Add and Sub for MatrixN: new(self.e[0][0] + m.e[0][0], self.e[0][1] + m.e[0][1], ..)
Matrix_add(a, m) ==
    LET N == Dim(a)
    IN  MatrixN_new([k \in 0..(N * N - 1) |-> FAdd(a[k \div N][k % N], m[k \div N][k % N])])

Matrix_sub(a, m) ==
    LET N == Dim(a)
    IN  MatrixN_new([k \in 0..(N * N - 1) |-> FSub(a[k \div N][k % N], m[k \div N][k % N])])

\* AddAssign and SubAssign for MatrixN: self.e[i][j] += m.e[i][j], the value of self after the call
Matrix_add_assign(a, m) ==
    [i \in 0..(Dim(a) - 1) |-> [j \in 0..(Dim(a) - 1) |-> FAdd(a[i][j], m[i][j])]]

Matrix_sub_assign(a, m) ==
    [i \in 0..(Dim(a) - 1) |-> [j \in 0..(Dim(a) - 1) |-> FSub(a[i][j], m[i][j])]]

\* MulAssign<f32> for MatrixN, the value of self after the call. Matrix2 runs
\* e[0][0] *= s; e[0][1] *= s; e[0][1] *= s; e[1][1] *= s; Matrix3 and Matrix4
\* run e[i][j] *= s once for every i, j
Matrix_mul_assign(m, s) ==
    IF Dim(m) = 2
    THEN Arr(<< Arr(<<FMul(m[0][0], s), FMul(FMul(m[0][1], s), s)>>),
                Arr(<<m[1][0], FMul(m[1][1], s)>>) >>)
    ELSE [i \in 0..(Dim(m) - 1) |-> [j \in 0..(Dim(m) - 1) |-> FMul(m[i][j], s)]]

\* transpose (also the unary -): new(e[0][0], e[0][1], ..)
transpose(m) ==
    LET N == Dim(m)
    IN  MatrixN_new([k \in 0..(N * N - 1) |-> m[k \div N][k % N]])

----------------------------------------------------------------------------
(* Minors, cofactors, determinants *)

Matrix2_minor(m, i, j) == m[1 - i][1 - j]

\* Matrix3::minor and Matrix4::minor for i, j below the dimension: the loops copy
\* e[a][b], for a # i and b # j, to [a - 1 if i < a else a][b - 1 if j < b else b],
\* so the entry [row][col] of the result comes from a = row (row < i) or row + 1
MatrixN_minor(m, i, j) ==
    LET N == Dim(m)
        from(r, x) == IF r < x THEN r ELSE r + 1
    IN  [r \in 0..(N - 2) |-> [c \in 0..(N - 2) |-> m[from(r, i)][from(c, j)]]]

\* a sign factor that leaves out the % 2: signum((i - 0.5) * (j - 0.5))
cofactor_sign_no_mod(i, j) ==
    FSignum(FMul(FSub(F(i), Rat(1, 2)), FSub(F(j), Rat(1, 2))))

\* signum((i % 2 - 0.5) * (j % 2 - 0.5))
cofactor_sign(i, j) ==
    FSignum(FMul(FSub(F(i % 2), Rat(1, 2)), FSub(F(j % 2), Rat(1, 2))))

Matrix2_determinant(m) ==
    FSub(FMul(m[0][0], Matrix2_minor(m, 0, 0)),
         FMul(m[1][0], Matrix2_minor(m, 1, 0)))

Matrix3_determinant(m) ==
    FAdd(FSub(FMul(m[0][0], Matrix2_determinant(MatrixN_minor(m, 0, 0))),
              FMul(m[0][1], Matrix2_determinant(MatrixN_minor(m, 0, 1)))),
         FMul(m[0][2], Matrix2_determinant(MatrixN_minor(m, 0, 2))))

Matrix4_determinant(m) ==
    FSub(FAdd(FSub(FMul(m[0][0], Matrix3_determinant(MatrixN_minor(m, 0, 0))),
                   FMul(m[0][1], Matrix3_determinant(MatrixN_minor(m, 0, 1)))),
              FMul(m[0][2], Matrix3_determinant(MatrixN_minor(m, 0, 2)))),
         FMul(m[0][3], Matrix3_determinant(MatrixN_minor(m, 0, 3))))

determinant(m) ==
    IF Dim(m) = 2 THEN Matrix2_determinant(m)
    ELSE IF Dim(m) = 3 THEN Matrix3_determinant(m)
    ELSE Matrix4_determinant(m)

\* minor(i, j) of Matrix2 (an f32), Matrix3 (a Matrix2) and Matrix4 (a Matrix3)
minor(m, i, j) ==
    IF Dim(m) = 2 THEN Matrix2_minor(m, i, j) ELSE MatrixN_minor(m, i, j)

\* Matrix2::minor subtracts i and j from 1 in usize and indexes with the result;
\* Matrix3::minor and Matrix4::minor skip no row when i >= N (no column when
\* j >= N) and write M.e[N - 1][..] (M.e[..][N - 1]) into the smaller matrix M:
\* either way the call panics as soon as i or j is not below N, and so does
\* cofactor, which calls minor first
minor_panics(m, i, j)    == i >= Dim(m) \/ j >= Dim(m)
cofactor_panics(m, i, j) == minor_panics(m, i, j)

cofactor(m, i, j) ==
    IF Dim(m) = 2
    THEN FMul(Matrix2_minor(m, i, j), cofactor_sign(i, j))
    ELSE FMul(determinant(MatrixN_minor(m, i, j)), cofactor_sign(i, j))

\* a cofactor matrix that pushes cofactor(i, j) instead of cofactor(j, i)
cofactor_matrix_ij(m) ==
    LET N == Dim(m)
    IN  MatrixN_new([k \in 0..(N * N - 1) |-> cofactor(m, k \div N, k % N)])

\* for i in 0..N { for j in 0..N { c.push(cofactor(j, i)) } }; new(c[0], c[1], ..)
cofactor_matrix(m) ==
    LET N == Dim(m)
    IN  MatrixN_new([k \in 0..(N * N - 1) |-> cofactor(m, k % N, k \div N)])

\* an adjugate that leaves out the transposition
adjugate_untransposed(m) == cofactor_matrix(m)

adjugate(m) == transpose(cofactor_matrix(m))

\* an inverse that divides without looking at the determinant
inverse_unguarded(m) == Matrix_div_f32(adjugate(m), determinant(m))

\* inverse, and the unary ! which has the same body
inverse(m) ==
    IF FEq(determinant(m), F(0))
    THEN Matrix_zero(Dim(m))
    ELSE Matrix_div_f32(adjugate(m), determinant(m))

Matrix_not(m) ==
    IF FEq(determinant(m), F(0))
    THEN Matrix_zero(Dim(m))
    ELSE Matrix_div_f32(adjugate(m), determinant(m))

----------------------------------------------------------------------------
(* Triangulation *)

\* a Matrix2::triangular_lower that takes the ratio of the y components
Matrix2_triangular_lower_y(m) ==
    LET col0 == column(m, 0)
        col1 == column(m, 1)
    IN  from_vectorN(Arr(<<col0,
                           Vector_sub(col1, f32_mul_Vector(FDiv(col1.y, col0.y), col0))>>))

Matrix2_triangular_lower(m) ==
    LET col0 == column(m, 0)
        col1 == column(m, 1)
    IN  from_vectorN(Arr(<<col0,
                           Vector_sub(col1, f32_mul_Vector(FDiv(col1.x, col0.x), col0))>>))

Matrix3_triangular_lower(m) ==
    LET col0 == column(m, 0)
        col1 == column(m, 1)
        col2 == column(m, 2)
        col1_a == Vector_sub(col1, Vector_mul_f32(col0, FDiv(col1.x, col0.x)))
        col2_a == Vector_sub(col2, Vector_mul_f32(col0, FDiv(col2.x, col0.x)))
        col2_b == Vector_sub(col2_a, Vector_mul_f32(col1_a, FDiv(col2_a.y, col1_a.y)))
    IN  from_vectorN(Arr(<<col0, col1_a, col2_b>>))

Matrix4_triangular_lower(m) ==
    LET col0 == column(m, 0)
        col1 == column(m, 1)
        col2 == column(m, 2)
        col3 == column(m, 3)
        col1_a == Vector_sub(col1, Vector_mul_f32(col0, FDiv(col1.x, col0.x)))
        col2_a == Vector_sub(col2, Vector_mul_f32(col0, FDiv(col2.x, col0.x)))
        col3_a == Vector_sub(col3, Vector_mul_f32(col0, FDiv(col3.x, col0.x)))
        col2_b == Vector_sub(col2_a, Vector_mul_f32(col1_a, FDiv(col2_a.y, col1_a.y)))
        col3_b == Vector_sub(col3_a, Vector_mul_f32(col1_a, FDiv(col3_a.y, col1_a.y)))
        col3_c == Vector_sub(col3_b, Vector_mul_f32(col2_b, FDiv(col3_b.z, col2_b.z)))
    IN  from_vectorN(Arr(<<col0, col1_a, col2_b, col3_c>>))

triangular_lower(m) ==
    IF Dim(m) = 2 THEN Matrix2_triangular_lower(m)
    ELSE IF Dim(m) = 3 THEN Matrix3_triangular_lower(m)
    ELSE Matrix4_triangular_lower(m)

\* triangular_upper of Matrix2, Matrix3 and Matrix4: the columns are cleared from the last one
triangular_upper(m) ==
    IF Dim(m) = 2
    THEN LET col0 == column(m, 0)
             col1 == column(m, 1)
         IN  from_vectorN(Arr(<<Vector_sub(col0, Vector_mul_f32(col1, FDiv(col0.y, col1.y))),
                                col1>>))
    ELSE IF Dim(m) = 3
    THEN LET col0 == column(m, 0)
             col1 == column(m, 1)
             col2 == column(m, 2)
             col0_a == Vector_sub(col0, Vector_mul_f32(col2, FDiv(col0.z, col2.z)))
             col1_a == Vector_sub(col1, Vector_mul_f32(col2, FDiv(col1.z, col2.z)))
             col0_b == Vector_sub(col0_a, Vector_mul_f32(col1_a, FDiv(col0_a.y, col1_a.y)))
         IN  from_vectorN(Arr(<<col0_b, col1_a, col2>>))
    ELSE LET col0 == column(m, 0)
             col1 == column(m, 1)
             col2 == column(m, 2)
             col3 == column(m, 3)
             col0_a == Vector_sub(col0, Vector_mul_f32(col3, FDiv(col0.w, col3.w)))
             col1_a == Vector_sub(col1, Vector_mul_f32(col3, FDiv(col1.w, col3.w)))
             col2_a == Vector_sub(col2, Vector_mul_f32(col3, FDiv(col2.w, col3.w)))
             col0_b == Vector_sub(col0_a, Vector_mul_f32(col2_a, FDiv(col0_a.z, col2_a.z)))
             col1_b == Vector_sub(col1_a, Vector_mul_f32(col2_a, FDiv(col1_a.z, col2_a.z)))
             col0_c == Vector_sub(col0_b, Vector_mul_f32(col1_b, FDiv(col0_b.y, col1_b.y)))
         IN  from_vectorN(Arr(<<col0_c, col1_b, col2_a, col3>>))

\* dia.x * dia.y [* dia.z [* dia.w]] of the diagonal of triangular_lower()
determinant2(m) ==
    LET dia == diagonal(triangular_lower(m))
    IN  IF Dim(m) = 2 THEN FMul(dia.x, dia.y)
        ELSE IF Dim(m) = 3 THEN FMul(FMul(dia.x, dia.y), dia.z)
        ELSE FMul(FMul(FMul(dia.x, dia.y), dia.z), dia.w)

----------------------------------------------------------------------------
(* Swizzling: one field per accessor, named as the accessor, holding what it returns *)

Vector2_swizzle(v) ==
    [ xx |-> Vector2_new(v.x, v.x), xy |-> Vector2_new(v.x, v.y), yx |-> Vector2_new(v.y, v.x), yy |-> Vector2_new(v.y, v.y) ]

Vector3_swizzle(v) ==
    [ xxx |-> Vector3_new(v.x, v.x, v.x), xxy |-> Vector3_new(v.x, v.x, v.y), xxz |-> Vector3_new(v.x, v.x, v.z),
      xyx |-> Vector3_new(v.x, v.y, v.x), xyy |-> Vector3_new(v.x, v.y, v.y), xyz |-> Vector3_new(v.x, v.y, v.z),
      xzx |-> Vector3_new(v.x, v.z, v.x), xzy |-> Vector3_new(v.x, v.z, v.y), xzz |-> Vector3_new(v.x, v.z, v.z),
      yxx |-> Vector3_new(v.y, v.x, v.x), yxy |-> Vector3_new(v.y, v.x, v.y), yxz |-> Vector3_new(v.y, v.x, v.z),
      yyx |-> Vector3_new(v.y, v.y, v.x), yyy |-> Vector3_new(v.y, v.y, v.y), yyz |-> Vector3_new(v.y, v.y, v.z),
      yzx |-> Vector3_new(v.y, v.z, v.x), yzy |-> Vector3_new(v.y, v.z, v.y), yzz |-> Vector3_new(v.y, v.z, v.z),
      zxx |-> Vector3_new(v.z, v.x, v.x), zxy |-> Vector3_new(v.z, v.x, v.y), zxz |-> Vector3_new(v.z, v.x, v.z),
      zyx |-> Vector3_new(v.z, v.y, v.x), zyy |-> Vector3_new(v.z, v.y, v.y), zyz |-> Vector3_new(v.z, v.y, v.z),
      zzx |-> Vector3_new(v.z, v.z, v.x), zzy |-> Vector3_new(v.z, v.z, v.y), zzz |-> Vector3_new(v.z, v.z, v.z) ]

Vector4_swizzle(v) ==
    [ xxxx |-> Vector4_new(v.x, v.x, v.x, v.x), xxxy |-> Vector4_new(v.x, v.x, v.x, v.y),
      xxxz |-> Vector4_new(v.x, v.x, v.x, v.z), xxxw |-> Vector4_new(v.x, v.x, v.x, v.w),
      xxyx |-> Vector4_new(v.x, v.x, v.y, v.x), xxyy |-> Vector4_new(v.x, v.x, v.y, v.y),
      xxyz |-> Vector4_new(v.x, v.x, v.y, v.z), xxyw |-> Vector4_new(v.x, v.x, v.y, v.w),
      xxzx |-> Vector4_new(v.x, v.x, v.z, v.x), xxzy |-> Vector4_new(v.x, v.x, v.z, v.y),
      xxzz |-> Vector4_new(v.x, v.x, v.z, v.z), xxzw |-> Vector4_new(v.x, v.x, v.z, v.w),
      xxwx |-> Vector4_new(v.x, v.x, v.w, v.x), xxwy |-> Vector4_new(v.x, v.x, v.w, v.y),
      xxwz |-> Vector4_new(v.x, v.x, v.w, v.z), xxww |-> Vector4_new(v.x, v.x, v.w, v.w),
      xyxx |-> Vector4_new(v.x, v.y, v.x, v.x), xyxy |-> Vector4_new(v.x, v.y, v.x, v.y),
      xyxz |-> Vector4_new(v.x, v.y, v.x, v.z), xyxw |-> Vector4_new(v.x, v.y, v.x, v.w),
      xyyx |-> Vector4_new(v.x, v.y, v.y, v.x), xyyy |-> Vector4_new(v.x, v.y, v.y, v.y),
      xyyz |-> Vector4_new(v.x, v.y, v.y, v.z), xyyw |-> Vector4_new(v.x, v.y, v.y, v.w),
      xyzx |-> Vector4_new(v.x, v.y, v.z, v.x), xyzy |-> Vector4_new(v.x, v.y, v.z, v.y),
      xyzz |-> Vector4_new(v.x, v.y, v.z, v.z), xyzw |-> Vector4_new(v.x, v.y, v.z, v.w),
      xywx |-> Vector4_new(v.x, v.y, v.w, v.x), xywy |-> Vector4_new(v.x, v.y, v.w, v.y),
      xywz |-> Vector4_new(v.x, v.y, v.w, v.z), xyww |-> Vector4_new(v.x, v.y, v.w, v.w),
      xzxx |-> Vector4_new(v.x, v.z, v.x, v.x), xzxy |-> Vector4_new(v.x, v.z, v.x, v.y),
      xzxz |-> Vector4_new(v.x, v.z, v.x, v.z), xzxw |-> Vector4_new(v.x, v.z, v.x, v.w),
      xzyx |-> Vector4_new(v.x, v.z, v.y, v.x), xzyy |-> Vector4_new(v.x, v.z, v.y, v.y),
      xzyz |-> Vector4_new(v.x, v.z, v.y, v.z), xzyw |-> Vector4_new(v.x, v.z, v.y, v.w),
      xzzx |-> Vector4_new(v.x, v.z, v.z, v.x), xzzy |-> Vector4_new(v.x, v.z, v.z, v.y),
      xzzz |-> Vector4_new(v.x, v.z, v.z, v.z), xzzw |-> Vector4_new(v.x, v.z, v.z, v.w),
      xzwx |-> Vector4_new(v.x, v.z, v.w, v.x), xzwy |-> Vector4_new(v.x, v.z, v.w, v.y),
      xzwz |-> Vector4_new(v.x, v.z, v.w, v.z), xzww |-> Vector4_new(v.x, v.z, v.w, v.w),
      xwxx |-> Vector4_new(v.x, v.w, v.x, v.x), xwxy |-> Vector4_new(v.x, v.w, v.x, v.y),
      xwxz |-> Vector4_new(v.x, v.w, v.x, v.z), xwxw |-> Vector4_new(v.x, v.w, v.x, v.w),
      xwyx |-> Vector4_new(v.x, v.w, v.y, v.x), xwyy |-> Vector4_new(v.x, v.w, v.y, v.y),
      xwyz |-> Vector4_new(v.x, v.w, v.y, v.z), xwyw |-> Vector4_new(v.x, v.w, v.y, v.w),
      xwzx |-> Vector4_new(v.x, v.w, v.z, v.x), xwzy |-> Vector4_new(v.x, v.w, v.z, v.y),
      xwzz |-> Vector4_new(v.x, v.w, v.z, v.z), xwzw |-> Vector4_new(v.x, v.w, v.z, v.w),
      xwwx |-> Vector4_new(v.x, v.w, v.w, v.x), xwwy |-> Vector4_new(v.x, v.w, v.w, v.y),
      xwwz |-> Vector4_new(v.x, v.w, v.w, v.z), xwww |-> Vector4_new(v.x, v.w, v.w, v.w),
      yxxx |-> Vector4_new(v.y, v.x, v.x, v.x), yxxy |-> Vector4_new(v.y, v.x, v.x, v.y),
      yxxz |-> Vector4_new(v.y, v.x, v.x, v.z), yxxw |-> Vector4_new(v.y, v.x, v.x, v.w),
      yxyx |-> Vector4_new(v.y, v.x, v.y, v.x), yxyy |-> Vector4_new(v.y, v.x, v.y, v.y),
      yxyz |-> Vector4_new(v.y, v.x, v.y, v.z), yxyw |-> Vector4_new(v.y, v.x, v.y, v.w),
      yxzx |-> Vector4_new(v.y, v.x, v.z, v.x), yxzy |-> Vector4_new(v.y, v.x, v.z, v.y),
      yxzz |-> Vector4_new(v.y, v.x, v.z, v.z), yxzw |-> Vector4_new(v.y, v.x, v.z, v.w),
      yxwx |-> Vector4_new(v.y, v.x, v.w, v.x), yxwy |-> Vector4_new(v.y, v.x, v.w, v.y),
      yxwz |-> Vector4_new(v.y, v.x, v.w, v.z), yxww |-> Vector4_new(v.y, v.x, v.w, v.w),
      yyxx |-> Vector4_new(v.y, v.y, v.x, v.x), yyxy |-> Vector4_new(v.y, v.y, v.x, v.y),
      yyxz |-> Vector4_new(v.y, v.y, v.x, v.z), yyxw |-> Vector4_new(v.y, v.y, v.x, v.w),
      yyyx |-> Vector4_new(v.y, v.y, v.y, v.x), yyyy |-> Vector4_new(v.y, v.y, v.y, v.y),
      yyyz |-> Vector4_new(v.y, v.y, v.y, v.z), yyyw |-> Vector4_new(v.y, v.y, v.y, v.w),
      yyzx |-> Vector4_new(v.y, v.y, v.z, v.x), yyzy |-> Vector4_new(v.y, v.y, v.z, v.y),
      yyzz |-> Vector4_new(v.y, v.y, v.z, v.z), yyzw |-> Vector4_new(v.y, v.y, v.z, v.w),
      yywx |-> Vector4_new(v.y, v.y, v.w, v.x), yywy |-> Vector4_new(v.y, v.y, v.w, v.y),
      yywz |-> Vector4_new(v.y, v.y, v.w, v.z), yyww |-> Vector4_new(v.y, v.y, v.w, v.w),
      yzxx |-> Vector4_new(v.y, v.z, v.x, v.x), yzxy |-> Vector4_new(v.y, v.z, v.x, v.y),
      yzxz |-> Vector4_new(v.y, v.z, v.x, v.z), yzxw |-> Vector4_new(v.y, v.z, v.x, v.w),
      yzyx |-> Vector4_new(v.y, v.z, v.y, v.x), yzyy |-> Vector4_new(v.y, v.z, v.y, v.y),
      yzyz |-> Vector4_new(v.y, v.z, v.y, v.z), yzyw |-> Vector4_new(v.y, v.z, v.y, v.w),
      yzzx |-> Vector4_new(v.y, v.z, v.z, v.x), yzzy |-> Vector4_new(v.y, v.z, v.z, v.y),
      yzzz |-> Vector4_new(v.y, v.z, v.z, v.z), yzzw |-> Vector4_new(v.y, v.z, v.z, v.w),
      yzwx |-> Vector4_new(v.y, v.z, v.w, v.x), yzwy |-> Vector4_new(v.y, v.z, v.w, v.y),
      yzwz |-> Vector4_new(v.y, v.z, v.w, v.z), yzww |-> Vector4_new(v.y, v.z, v.w, v.w),
      ywxx |-> Vector4_new(v.y, v.w, v.x, v.x), ywxy |-> Vector4_new(v.y, v.w, v.x, v.y),
      ywxz |-> Vector4_new(v.y, v.w, v.x, v.z), ywxw |-> Vector4_new(v.y, v.w, v.x, v.w),
      ywyx |-> Vector4_new(v.y, v.w, v.y, v.x), ywyy |-> Vector4_new(v.y, v.w, v.y, v.y),
      ywyz |-> Vector4_new(v.y, v.w, v.y, v.z), ywyw |-> Vector4_new(v.y, v.w, v.y, v.w),
      ywzx |-> Vector4_new(v.y, v.w, v.z, v.x), ywzy |-> Vector4_new(v.y, v.w, v.z, v.y),
      ywzz |-> Vector4_new(v.y, v.w, v.z, v.z), ywzw |-> Vector4_new(v.y, v.w, v.z, v.w),
      ywwx |-> Vector4_new(v.y, v.w, v.w, v.x), ywwy |-> Vector4_new(v.y, v.w, v.w, v.y),
      ywwz |-> Vector4_new(v.y, v.w, v.w, v.z), ywww |-> Vector4_new(v.y, v.w, v.w, v.w),
      zxxx |-> Vector4_new(v.z, v.x, v.x, v.x), zxxy |-> Vector4_new(v.z, v.x, v.x, v.y),
      zxxz |-> Vector4_new(v.z, v.x, v.x, v.z), zxxw |-> Vector4_new(v.z, v.x, v.x, v.w),
      zxyx |-> Vector4_new(v.z, v.x, v.y, v.x), zxyy |-> Vector4_new(v.z, v.x, v.y, v.y),
      zxyz |-> Vector4_new(v.z, v.x, v.y, v.z), zxyw |-> Vector4_new(v.z, v.x, v.y, v.w),
      zxzx |-> Vector4_new(v.z, v.x, v.z, v.x), zxzy |-> Vector4_new(v.z, v.x, v.z, v.y),
      zxzz |-> Vector4_new(v.z, v.x, v.z, v.z), zxzw |-> Vector4_new(v.z, v.x, v.z, v.w),
      zxwx |-> Vector4_new(v.z, v.x, v.w, v.x), zxwy |-> Vector4_new(v.z, v.x, v.w, v.y),
      zxwz |-> Vector4_new(v.z, v.x, v.w, v.z), zxww |-> Vector4_new(v.z, v.x, v.w, v.w),
      zyxx |-> Vector4_new(v.z, v.y, v.x, v.x), zyxy |-> Vector4_new(v.z, v.y, v.x, v.y),
      zyxz |-> Vector4_new(v.z, v.y, v.x, v.z), zyxw |-> Vector4_new(v.z, v.y, v.x, v.w),
      zyyx |-> Vector4_new(v.z, v.y, v.y, v.x), zyyy |-> Vector4_new(v.z, v.y, v.y, v.y),
      zyyz |-> Vector4_new(v.z, v.y, v.y, v.z), zyyw |-> Vector4_new(v.z, v.y, v.y, v.w),
      zyzx |-> Vector4_new(v.z, v.y, v.z, v.x), zyzy |-> Vector4_new(v.z, v.y, v.z, v.y),
      zyzz |-> Vector4_new(v.z, v.y, v.z, v.z), zyzw |-> Vector4_new(v.z, v.y, v.z, v.w),
      zywx |-> Vector4_new(v.z, v.y, v.w, v.x), zywy |-> Vector4_new(v.z, v.y, v.w, v.y),
      zywz |-> Vector4_new(v.z, v.y, v.w, v.z), zyww |-> Vector4_new(v.z, v.y, v.w, v.w),
      zzxx |-> Vector4_new(v.z, v.z, v.x, v.x), zzxy |-> Vector4_new(v.z, v.z, v.x, v.y),
      zzxz |-> Vector4_new(v.z, v.z, v.x, v.z), zzxw |-> Vector4_new(v.z, v.z, v.x, v.w),
      zzyx |-> Vector4_new(v.z, v.z, v.y, v.x), zzyy |-> Vector4_new(v.z, v.z, v.y, v.y),
      zzyz |-> Vector4_new(v.z, v.z, v.y, v.z), zzyw |-> Vector4_new(v.z, v.z, v.y, v.w),
      zzzx |-> Vector4_new(v.z, v.z, v.z, v.x), zzzy |-> Vector4_new(v.z, v.z, v.z, v.y),
      zzzz |-> Vector4_new(v.z, v.z, v.z, v.z), zzzw |-> Vector4_new(v.z, v.z, v.z, v.w),
      zzwx |-> Vector4_new(v.z, v.z, v.w, v.x), zzwy |-> Vector4_new(v.z, v.z, v.w, v.y),
      zzwz |-> Vector4_new(v.z, v.z, v.w, v.z), zzww |-> Vector4_new(v.z, v.z, v.w, v.w),
      zwxx |-> Vector4_new(v.z, v.w, v.x, v.x), zwxy |-> Vector4_new(v.z, v.w, v.x, v.y),
      zwxz |-> Vector4_new(v.z, v.w, v.x, v.z), zwxw |-> Vector4_new(v.z, v.w, v.x, v.w),
      zwyx |-> Vector4_new(v.z, v.w, v.y, v.x), zwyy |-> Vector4_new(v.z, v.w, v.y, v.y),
      zwyz |-> Vector4_new(v.z, v.w, v.y, v.z), zwyw |-> Vector4_new(v.z, v.w, v.y, v.w),
      zwzx |-> Vector4_new(v.z, v.w, v.z, v.x), zwzy |-> Vector4_new(v.z, v.w, v.z, v.y),
      zwzz |-> Vector4_new(v.z, v.w, v.z, v.z), zwzw |-> Vector4_new(v.z, v.w, v.z, v.w),
      zwwx |-> Vector4_new(v.z, v.w, v.w, v.x), zwwy |-> Vector4_new(v.z, v.w, v.w, v.y),
      zwwz |-> Vector4_new(v.z, v.w, v.w, v.z), zwww |-> Vector4_new(v.z, v.w, v.w, v.w),
      wxxx |-> Vector4_new(v.w, v.x, v.x, v.x), wxxy |-> Vector4_new(v.w, v.x, v.x, v.y),
      wxxz |-> Vector4_new(v.w, v.x, v.x, v.z), wxxw |-> Vector4_new(v.w, v.x, v.x, v.w),
      wxyx |-> Vector4_new(v.w, v.x, v.y, v.x), wxyy |-> Vector4_new(v.w, v.x, v.y, v.y),
      wxyz |-> Vector4_new(v.w, v.x, v.y, v.z), wxyw |-> Vector4_new(v.w, v.x, v.y, v.w),
      wxzx |-> Vector4_new(v.w, v.x, v.z, v.x), wxzy |-> Vector4_new(v.w, v.x, v.z, v.y),
      wxzz |-> Vector4_new(v.w, v.x, v.z, v.z), wxzw |-> Vector4_new(v.w, v.x, v.z, v.w),
      wxwx |-> Vector4_new(v.w, v.x, v.w, v.x), wxwy |-> Vector4_new(v.w, v.x, v.w, v.y),
      wxwz |-> Vector4_new(v.w, v.x, v.w, v.z), wxww |-> Vector4_new(v.w, v.x, v.w, v.w),
      wyxx |-> Vector4_new(v.w, v.y, v.x, v.x), wyxy |-> Vector4_new(v.w, v.y, v.x, v.y),
      wyxz |-> Vector4_new(v.w, v.y, v.x, v.z), wyxw |-> Vector4_new(v.w, v.y, v.x, v.w),
      wyyx |-> Vector4_new(v.w, v.y, v.y, v.x), wyyy |-> Vector4_new(v.w, v.y, v.y, v.y),
      wyyz |-> Vector4_new(v.w, v.y, v.y, v.z), wyyw |-> Vector4_new(v.w, v.y, v.y, v.w),
      wyzx |-> Vector4_new(v.w, v.y, v.z, v.x), wyzy |-> Vector4_new(v.w, v.y, v.z, v.y),
      wyzz |-> Vector4_new(v.w, v.y, v.z, v.z), wyzw |-> Vector4_new(v.w, v.y, v.z, v.w),
      wywx |-> Vector4_new(v.w, v.y, v.w, v.x), wywy |-> Vector4_new(v.w, v.y, v.w, v.y),
      wywz |-> Vector4_new(v.w, v.y, v.w, v.z), wyww |-> Vector4_new(v.w, v.y, v.w, v.w),
      wzxx |-> Vector4_new(v.w, v.z, v.x, v.x), wzxy |-> Vector4_new(v.w, v.z, v.x, v.y),
      wzxz |-> Vector4_new(v.w, v.z, v.x, v.z), wzxw |-> Vector4_new(v.w, v.z, v.x, v.w),
      wzyx |-> Vector4_new(v.w, v.z, v.y, v.x), wzyy |-> Vector4_new(v.w, v.z, v.y, v.y),
      wzyz |-> Vector4_new(v.w, v.z, v.y, v.z), wzyw |-> Vector4_new(v.w, v.z, v.y, v.w),
      wzzx |-> Vector4_new(v.w, v.z, v.z, v.x), wzzy |-> Vector4_new(v.w, v.z, v.z, v.y),
      wzzz |-> Vector4_new(v.w, v.z, v.z, v.z), wzzw |-> Vector4_new(v.w, v.z, v.z, v.w),
      wzwx |-> Vector4_new(v.w, v.z, v.w, v.x), wzwy |-> Vector4_new(v.w, v.z, v.w, v.y),
      wzwz |-> Vector4_new(v.w, v.z, v.w, v.z), wzww |-> Vector4_new(v.w, v.z, v.w, v.w),
      wwxx |-> Vector4_new(v.w, v.w, v.x, v.x), wwxy |-> Vector4_new(v.w, v.w, v.x, v.y),
      wwxz |-> Vector4_new(v.w, v.w, v.x, v.z), wwxw |-> Vector4_new(v.w, v.w, v.x, v.w),
      wwyx |-> Vector4_new(v.w, v.w, v.y, v.x), wwyy |-> Vector4_new(v.w, v.w, v.y, v.y),
      wwyz |-> Vector4_new(v.w, v.w, v.y, v.z), wwyw |-> Vector4_new(v.w, v.w, v.y, v.w),
      wwzx |-> Vector4_new(v.w, v.w, v.z, v.x), wwzy |-> Vector4_new(v.w, v.w, v.z, v.y),
      wwzz |-> Vector4_new(v.w, v.w, v.z, v.z), wwzw |-> Vector4_new(v.w, v.w, v.z, v.w),
      wwwx |-> Vector4_new(v.w, v.w, v.w, v.x), wwwy |-> Vector4_new(v.w, v.w, v.w, v.y),
      wwwz |-> Vector4_new(v.w, v.w, v.w, v.z), wwww |-> Vector4_new(v.w, v.w, v.w, v.w) ]

\* the accessors of a vector, by name
swizzles(v) ==
    IF DOMAIN v = {"x", "y"} THEN Vector2_swizzle(v)
    ELSE IF DOMAIN v = {"x", "y", "z"} THEN Vector3_swizzle(v)
    ELSE Vector4_swizzle(v)

\* accessors among which yx, zyx and wzyx return the components in declaration order
swizzle_unreversed(v, name) ==
    IF name \in {"yx", "zyx", "wzyx"} THEN v ELSE swizzles(v)[name]

\* the call v.name()
swizzle(v, name) == swizzles(v)[name]

----------------------------------------------------------------------------
(* Geometry of vectors *)

magnitude(v) == FSqrt(Vector_dot(v, v))

\* a normalization that divides by the squared magnitude
normalization_by_sqr(v) ==
    LET d == FDiv(F(1), Vector_dot(v, v))
    IN  Vector_mul_f32(v, d)

normalization(v) ==
    LET d == FDiv(F(1), magnitude(v))
    IN  Vector_mul_f32(v, d)

\* a lerp that clamps t to [0, 1]
lerp_clamped(a, b, t) ==
    LET u == IF FLe(t, F(0)) THEN F(0) ELSE IF FLe(F(1), t) THEN F(1) ELSE t
    IN  Vector_add(a, Vector_mul_f32(Vector_sub(b, a), u))

lerp(a, b, t) == Vector_add(a, Vector_mul_f32(Vector_sub(b, a), t))

\* an angle that divides by the squared magnitude of a
angle_by_sqr(a, b) ==
    FAcos(FDiv(Vector_dot(a, b), FMul(magnitude(a), magnitude(a))))

angle(a, b) ==
    FAcos(FDiv(Vector_dot(a, b), FMul(magnitude(a), magnitude(b))))

\* an angle_safe that compares the product of the magnitudes with 0.0 only
angle_safe_zero_only(a, b) ==
    LET d == FMul(magnitude(a), magnitude(b))
    IN  IF FLe(d, F(0)) THEN NaN ELSE angle(a, b)

angle_safe(a, b) ==
    LET d == FMul(magnitude(a), magnitude(b))
    IN  IF FLe(d, EPSILON) THEN NaN ELSE angle(a, b)

\* an angle_signed that leaves a negative atan2 as it is
angle_signed_unwrapped(a, b) ==
    LET dot == Vector_dot(a, b)
        det == Vector2_cross(a, b)
    IN  FAtan2(det, dot)

\* Vector2::angle_signed
angle_signed(a, b) ==
    LET dot == Vector_dot(a, b)
        det == Vector2_cross(a, b)
        angle0 == FAtan2(det, dot)
    IN  IF AngleNegative(angle0) THEN AnglePlus(angle0, TAU) ELSE angle0

----------------------------------------------------------------------------
(* Complex and dual numbers *)

\* Mul<Complex> for Complex
Complex_mul(a, c) ==
    Complex_new(FSub(FMul(a.r, a.i), FMul(c.r, c.i)),
                FAdd(FMul(a.r, c.i), FMul(c.r, a.i)))

\* Mul<Dual> for Dual
Dual_mul(a, d) ==
    Dual_new(FMul(a.r, a.e),
             FAdd(FMul(a.r, d.e), FMul(d.r, a.e)))

----------------------------------------------------------------------------
(* Quadrant and octant prefabs *)

\* the literals 0.7071067811865 and 0.57735026919, kept to four decimals
SQRT2OVER2 == Rat(7071, 10000)
SQRT3OVER3 == Rat(5773, 10000)

Vector2_Q1  == Vector2_new(F(1), F(1))
Vector2_Q1n == Vector2_new(SQRT2OVER2, SQRT2OVER2)
Vector3_Q1  == Vector3_new(F(1), F(1), F(1))
Vector3_Q1n == Vector3_new(SQRT3OVER3, SQRT3OVER3, SQRT3OVER3)
Vector2_Q2  == Vector2_new(F(-1), F(1))
Vector2_Q2n == Vector2_new(FNeg(SQRT2OVER2), SQRT2OVER2)
Vector3_Q2  == Vector3_new(F(-1), F(1), F(1))
Vector3_Q2n == Vector3_new(FNeg(SQRT3OVER3), SQRT3OVER3, SQRT3OVER3)
Vector2_Q3  == Vector2_new(F(-1), F(-1))
Vector2_Q3n == Vector2_new(FNeg(SQRT2OVER2), FNeg(SQRT2OVER2))
Vector3_Q3  == Vector3_new(F(-1), F(-1), F(1))
Vector3_Q3n == Vector3_new(FNeg(SQRT3OVER3), FNeg(SQRT3OVER3), SQRT3OVER3)
Vector2_Q4  == Vector2_new(F(1), F(1))
Vector2_Q4n == Vector2_new(SQRT2OVER2, SQRT2OVER2)
Vector3_Q4  == Vector3_new(F(1), F(1), F(1))
Vector3_Q4n == Vector3_new(SQRT3OVER3, SQRT3OVER3, SQRT3OVER3)
Vector3_Q5  == Vector3_new(F(1), F(1), F(-1))
Vector3_Q5n == Vector3_new(SQRT3OVER3, SQRT3OVER3, FNeg(SQRT3OVER3))
Vector3_Q6  == Vector3_new(F(-1), F(1), F(-1))
Vector3_Q6n == Vector3_new(FNeg(SQRT3OVER3), SQRT3OVER3, FNeg(SQRT3OVER3))
Vector3_Q7  == Vector3_new(F(-1), F(-1), F(-1))
Vector3_Q7n == Vector3_new(FNeg(SQRT3OVER3), FNeg(SQRT3OVER3), FNeg(SQRT3OVER3))
Vector3_Q8  == Vector3_new(F(1), F(-1), F(-1))
Vector3_Q8n == Vector3_new(SQRT3OVER3, FNeg(SQRT3OVER3), FNeg(SQRT3OVER3))

\* the prefab Vector2::Qk() (n = 0) or Vector2::Qkn() (n = 1)
Vector2_Q(k, n) ==
    CASE k = 1 -> (IF n = 0 THEN Vector2_Q1 ELSE Vector2_Q1n)
      [] k = 2 -> (IF n = 0 THEN Vector2_Q2 ELSE Vector2_Q2n)
      [] k = 3 -> (IF n = 0 THEN Vector2_Q3 ELSE Vector2_Q3n)
      [] k = 4 -> (IF n = 0 THEN Vector2_Q4 ELSE Vector2_Q4n)

\* the prefab Vector3::Qk() (n = 0) or Vector3::Qkn() (n = 1)
Vector3_Q(k, n) ==
    CASE k = 1 -> (IF n = 0 THEN Vector3_Q1 ELSE Vector3_Q1n)
      [] k = 2 -> (IF n = 0 THEN Vector3_Q2 ELSE Vector3_Q2n)
      [] k = 3 -> (IF n = 0 THEN Vector3_Q3 ELSE Vector3_Q3n)
      [] k = 4 -> (IF n = 0 THEN Vector3_Q4 ELSE Vector3_Q4n)
      [] k = 5 -> (IF n = 0 THEN Vector3_Q5 ELSE Vector3_Q5n)
      [] k = 6 -> (IF n = 0 THEN Vector3_Q6 ELSE Vector3_Q6n)
      [] k = 7 -> (IF n = 0 THEN Vector3_Q7 ELSE Vector3_Q7n)
      [] k = 8 -> (IF n = 0 THEN Vector3_Q8 ELSE Vector3_Q8n)

----------------------------------------------------------------------------
(* Inputs *)

\* the floats the inputs are made of
Entries == {F(n) : n \in (-MaxEntry)..MaxEntry}

\* rows for the Matrix3 (first three entries) and Matrix4 inputs
RowPool ==
    << <<1, 2, 0, 1>>, <<0, 1, 1, 0>>, <<-1, 0, 1, 1>>, <<0, 1, 0, 2>>,
       <<2, 0, 0, -1>>, <<1, 1, 1, 1>>, <<0, 0, 0, 1>> >>

Rows == 1..NumRows

\* the arguments of Matrix2::new: every list of four entries, and the list 1, 2, 3, 4
Lists2 == [0..3 -> Entries] \cup {Arr(<<F(1), F(2), F(3), F(4)>>)}

\* the arguments of Matrix3::new and Matrix4::new: every choice of rows from the pool
Lists3 == {[k \in 0..8 |-> F(RowPool[p[k \div 3]][(k % 3) + 1])] : p \in [0..2 -> Rows]}
Lists4 == {[k \in 0..15 |-> F(RowPool[p[k \div 4]][(k % 4) + 1])] : p \in [0..3 -> Rows]}

Pairs   == [0..1 -> Entries]
Triples == [0..2 -> Entries]

\* the arguments of Vector4::new: the rows of the pool, and 1, 2, 3, 4
Quads == {[k \in 0..3 |-> F(RowPool[i][k + 1])] : i \in Rows}
            \cup {Arr(<<F(1), F(2), F(3), F(4)>>)}

\* a length whose square is below EPSILON: 2^-12
Tiny == Rat(1, 4096)

\* further arguments of Vector2::new: (3, 4), (10, 10) and two vectors of tiny length
Pairs2 ==
    {Arr(<<F(3), F(4)>>), Arr(<<F(10), F(10)>>),
     Arr(<<Tiny, F(0)>>), Arr(<<FMul(F(2), Tiny), F(0)>>)}

\* the scalars handed to a * s, a / s and lerp
Scalars == Entries \cup {Rat(1, 2)}

\* the value a constructor call returns
Construct(c) ==
    CASE c.kind = "Matrix_new"          -> MatrixN_new(c.args)
      [] c.kind = "Matrix4_translation" ->
            Matrix4_translation(Vector3_new(c.args[0], c.args[1], c.args[2]))
      [] c.kind = "Matrix4_rotation_x"  -> Matrix4_rotation_x(c.args[0])
      [] c.kind = "Matrix4_rotation_y"  -> Matrix4_rotation_y(c.args[0])
      [] c.kind = "Matrix4_rotation_z"  -> Matrix4_rotation_z(c.args[0])
      [] c.kind = "Matrix4_rotation"    ->
            Matrix4_rotation(c.args[0], Vector3_new(c.args[1], c.args[2], c.args[3]))
      [] c.kind = "Complex_new"         -> Complex_new(c.args[0], c.args[1])
      [] c.kind = "Dual_new"            -> Dual_new(c.args[0], c.args[1])
      [] c.kind = "Vector_new"          -> VectorN_new(c.args)
      [] c.kind = "Vector2_Q"           -> Vector2_Q(c.args[0][1], c.args[1][1])
      [] c.kind = "Vector3_Q"           -> Vector3_Q(c.args[0][1], c.args[1][1])
      [] c.kind = "Matrix_from_vectors" ->
            LET N == IF Cardinality(DOMAIN c.args) = 4 THEN 2
                     ELSE IF Cardinality(DOMAIN c.args) = 9 THEN 3 ELSE 4
            IN  from_vectorN([i \in 0..(N - 1) |->
                    VectorN_new([k \in 0..(N - 1) |-> c.args[N * i + k]])])

Call(k, a) == [kind |-> k, args |-> a]

MatrixCtors ==
    {Call("Matrix_new", l) : l \in Lists2 \cup Lists3 \cup Lists4}
        \cup {Call("Matrix4_translation", t) : t \in Triples}
        \cup {Call("Matrix_from_vectors", l) : l \in Lists2 \cup Lists3 \cup Lists4}

\* the angles handed to the rotation constructors: 0, pi/2, pi, 3 pi/2 and atan(3/4),
\* whose cosine and sine are 4/5 and 3/5
RotationAngles == {Angle(q, F(0)) : q \in 0..3} \cup {Angle(0, Rat(3, 4))}

\* the axes handed to rotation: the three unit axes and the unit vector (0, 3/5, 4/5)
UnitX == Vector3_new(F(1), F(0), F(0))
UnitY == Vector3_new(F(0), F(1), F(0))
UnitZ == Vector3_new(F(0), F(0), F(1))
RotationAxes == {UnitX, UnitY, UnitZ, Vector3_new(F(0), Rat(3, 5), Rat(4, 5))}

RotationCtors ==
    {Call(k, Arr(<<t>>)) :
        k \in {"Matrix4_rotation_x", "Matrix4_rotation_y", "Matrix4_rotation_z"},
        t \in RotationAngles}
        \cup {Call("Matrix4_rotation", Arr(<<t, v.x, v.y, v.z>>)) :
                t \in RotationAngles, v \in RotationAxes}

NumberCtors ==
    {Call("Complex_new", q) : q \in Pairs} \cup {Call("Dual_new", q) : q \in Pairs}

VectorNewCtors ==
    {Call("Vector_new", q) : q \in Pairs \cup Pairs2 \cup Triples \cup Quads}

VectorCtors ==
    VectorNewCtors
        \cup {Call("Vector2_Q", Arr(<<F(k), F(n)>>)) : k \in 1..4, n \in 0..1}
        \cup {Call("Vector3_Q", Arr(<<F(k), F(n)>>)) : k \in 1..8, n \in 0..1}

IsMatrix ==
    ctor.kind \in {"Matrix_new", "Matrix4_translation", "Matrix_from_vectors",
                   "Matrix4_rotation_x", "Matrix4_rotation_y", "Matrix4_rotation_z",
                   "Matrix4_rotation"}
IsVector == ctor.kind \in {"Vector_new", "Vector2_Q", "Vector3_Q"}
\* the geometric operations are applied to vectors built by VectorN::new
IsVectorNew == ctor.kind = "Vector_new"

----------------------------------------------------------------------------
(* The operations, each applied to a freshly constructed value *)

Start(cs) ==
    /\ ctor \in cs
    /\ self = Construct(ctor)
    /\ op = "none"
    /\ arg = <<>>
    /\ res = <<>>

Apply(name, a, r) ==
    /\ op = "none"
    /\ op' = name
    /\ arg' = a
    /\ res' = r
    /\ UNCHANGED <<ctor, self>>

\* an in-place operation: self is what the call leaves in it, and nothing is returned
ApplyAssign(name, a, s) ==
    /\ op = "none"
    /\ op' = name
    /\ arg' = a
    /\ res' = <<>>
    /\ self' = s
    /\ UNCHANGED ctor

\* the call panics: the thread unwinds and nothing is returned
Panic(name, a) == Apply("panic", <<name>> \o a, <<>>)

Row ==
    /\ op = "none"
    /\ IsMatrix
    /\ \E n \in 0..MaxIndex :
        /\ IF row_panics(self, n) THEN Panic("row", <<n>>)
           ELSE Apply("row", <<n>>, row(self, n))

Column ==
    /\ op = "none"
    /\ IsMatrix
    /\ \E n \in 0..MaxIndex :
        /\ IF column_panics(self, n) THEN Panic("column", <<n>>)
           ELSE Apply("column", <<n>>, column(self, n))

Minor ==
    /\ op = "none"
    /\ IsMatrix
    /\ \E i, j \in 0..MaxIndex :
        /\ IF minor_panics(self, i, j) THEN Panic("minor", <<i, j>>)
           ELSE Apply("minor", <<i, j>>, minor(self, i, j))

Cofactor ==
    /\ op = "none"
    /\ IsMatrix
    /\ \E i, j \in 0..MaxIndex :
        /\ IF cofactor_panics(self, i, j) THEN Panic("cofactor", <<i, j>>)
           ELSE Apply("cofactor", <<i, j>>, cofactor(self, i, j))

\* MatrixN::from_vectorN(self.column(0), .., self.column(N - 1))
FromColumns ==
    /\ IsMatrix
    /\ Apply("from_columns", <<>>,
             from_vectorN([i \in 0..(Dim(self) - 1) |-> column(self, i)]))

Diagonal ==
    /\ IsMatrix
    /\ Apply("diagonal", <<>>, diagonal(self))

AsPtr ==
    /\ IsMatrix
    /\ Apply("as_ptr", <<>>, as_ptr(self))

Determinant ==
    /\ IsMatrix
    /\ Apply("determinant", <<>>, determinant(self))

Determinant2 ==
    /\ IsMatrix
    /\ Apply("determinant2", <<>>, determinant2(self))

Inverse ==
    /\ IsMatrix
    /\ Apply("inverse", <<>>, inverse(self))

\* !self
Not ==
    /\ IsMatrix
    /\ Apply("not", <<>>, Matrix_not(self))

\* self * self.inverse()
MulInverse ==
    /\ IsMatrix
    /\ Apply("mul_inverse", <<>>, Matrix_mul(self, inverse(self)))

\* self * self.adjugate()
MulAdjugate ==
    /\ IsMatrix
    /\ Apply("mul_adjugate", <<>>, Matrix_mul(self, adjugate(self)))

CofactorMatrix ==
    /\ IsMatrix
    /\ Apply("cofactor_matrix", <<>>, cofactor_matrix(self))

TriangularLower ==
    /\ IsMatrix
    /\ Apply("triangular_lower", <<>>, triangular_lower(self))

TriangularUpper ==
    /\ IsMatrix
    /\ Apply("triangular_upper", <<>>, triangular_upper(self))

InitMatrix == Start(MatrixCtors)

NextMatrix ==
    \/ Row
    \/ Column
    \/ Minor
    \/ Cofactor
    \/ FromColumns
    \/ Diagonal
    \/ AsPtr
    \/ Determinant
    \/ Determinant2
    \/ Inverse
    \/ Not
    \/ MulInverse
    \/ MulAdjugate
    \/ CofactorMatrix
    \/ TriangularLower
    \/ TriangularUpper

SpecMatrix == InitMatrix /\ [][NextMatrix]_vars

\* the right-hand operands offered to a binary matrix operator, of self's type:
\* the matrix new(1, 2, 3, ..), and the matrices with one non-zero entry, at [1][0]
MatrixOperands ==
    LET N == Dim(self)
    IN  {MatrixN_new([k \in 0..(N * N - 1) |-> F(k + 1)])}
            \cup {MatrixN_new([k \in 0..(N * N - 1) |-> IF k = 1 THEN F(v) ELSE F(0)]) :
                    v \in 1..MaxOperand}

\* self + m, self - m
MatrixAdd ==
    /\ op = "none"
    /\ IsMatrix
    /\ \E m \in MatrixOperands :
        /\ Apply("add", <<m>>, Matrix_add(self, m))

MatrixSub ==
    /\ op = "none"
    /\ IsMatrix
    /\ \E m \in MatrixOperands :
        /\ Apply("sub", <<m>>, Matrix_sub(self, m))

\* self += m, self -= m
MatrixAddAssign ==
    /\ op = "none"
    /\ IsMatrix
    /\ \E m \in MatrixOperands :
        /\ ApplyAssign("add_assign", <<m>>, Matrix_add_assign(self, m))

MatrixSubAssign ==
    /\ op = "none"
    /\ IsMatrix
    /\ \E m \in MatrixOperands :
        /\ ApplyAssign("sub_assign", <<m>>, Matrix_sub_assign(self, m))

\* self * s, s * self, self / s, self *= s
MatrixMulF32 ==
    /\ op = "none"
    /\ IsMatrix
    /\ \E s \in Scalars :
        /\ Apply("mul_f32", <<s>>, Matrix_mul_f32(self, s))

F32MulMatrix ==
    /\ op = "none"
    /\ IsMatrix
    /\ \E s \in Scalars :
        /\ Apply("f32_mul", <<s>>, f32_mul_Matrix(s, self))

MatrixDivF32 ==
    /\ op = "none"
    /\ IsMatrix
    /\ \E s \in Scalars :
        /\ Apply("div_f32", <<s>>, Matrix_div_f32(self, s))

MatrixMulAssign ==
    /\ op = "none"
    /\ IsMatrix
    /\ \E s \in Scalars :
        /\ ApplyAssign("mul_assign", <<s>>, Matrix_mul_assign(self, s))

\* MatrixN::identity() * self, self * MatrixN::identity()
IdentityMul ==
    /\ IsMatrix
    /\ Apply("identity_mul", <<>>, Matrix_mul(Matrix_identity(Dim(self)), self))

MulIdentity ==
    /\ IsMatrix
    /\ Apply("mul_identity", <<>>, Matrix_mul(self, Matrix_identity(Dim(self))))

\* self * Matrix4::scale_uniform(1.0)
MulScaleUniform ==
    /\ IsMatrix
    /\ Dim(self) = 4
    /\ Apply("mul_scale_uniform", <<>>, Matrix_mul(self, Matrix4_scale_uniform(F(1))))

NextMatrixArith ==
    \/ MatrixAdd
    \/ MatrixSub
    \/ MatrixAddAssign
    \/ MatrixSubAssign
    \/ MatrixMulF32
    \/ F32MulMatrix
    \/ MatrixDivF32
    \/ MatrixMulAssign
    \/ IdentityMul
    \/ MulIdentity
    \/ MulScaleUniform

\* the arithmetic runs on the rotation matrices too
InitMatrixArith == Start(MatrixCtors \cup RotationCtors)

SpecMatrixArith == InitMatrixArith /\ [][NextMatrixArith]_vars

\* self * c for Complex
ComplexMul ==
    /\ op = "none"
    /\ \E q \in Pairs :
        /\ ctor.kind = "Complex_new"
        /\ Apply("mul", <<Complex_new(q[0], q[1])>>, Complex_mul(self, Complex_new(q[0], q[1])))

\* self * d for Dual
DualMul ==
    /\ op = "none"
    /\ \E q \in Pairs :
        /\ ctor.kind = "Dual_new"
        /\ Apply("mul", <<Dual_new(q[0], q[1])>>, Dual_mul(self, Dual_new(q[0], q[1])))

InitNumber == Start(NumberCtors)

NextNumber ==
    \/ ComplexMul
    \/ DualMul

SpecNumber == InitNumber /\ [][NextNumber]_vars

\* the right-hand operands offered to a binary vector operator: vectors of self's type
Operands ==
    LET small == {F(n) : n \in (-MaxOperand)..MaxOperand}
    IN  {VectorN_new(q) : q \in [DOMAIN Components(self) -> small]}
            \cup (IF DOMAIN self = {"x", "y"} THEN {VectorN_new(q) : q \in Pairs2} ELSE {})

\* self + v, self - v
VectorAdd ==
    /\ op = "none"
    /\ IsVector
    /\ \E v \in Operands :
        /\ Apply("add", <<v>>, Vector_add(self, v))

VectorSub ==
    /\ op = "none"
    /\ IsVector
    /\ \E v \in Operands :
        /\ Apply("sub", <<v>>, Vector_sub(self, v))

\* self * s
VectorMulF32 ==
    /\ op = "none"
    /\ IsVector
    /\ \E s \in Entries :
        /\ Apply("mul_f32", <<s>>, Vector_mul_f32(self, s))

\* -self
VectorNeg ==
    /\ IsVector
    /\ Apply("neg", <<>>, Vector_neg(self))

\* s * self
F32MulVector ==
    /\ op = "none"
    /\ IsVector
    /\ \E s \in Scalars :
        /\ Apply("f32_mul", <<s>>, f32_mul_Vector(s, self))

\* self / s
VectorDivF32 ==
    /\ op = "none"
    /\ IsVector
    /\ \E s \in Scalars :
        /\ Apply("div_f32", <<s>>, Vector_div_f32(self, s))

\* self * v, the dot product
VectorDot ==
    /\ op = "none"
    /\ IsVector
    /\ \E v \in Operands :
        /\ Apply("dot", <<v>>, Vector_dot(self, v))

\* self / v, the cross product of Vector2 and of Vector3
VectorCross ==
    /\ op = "none"
    /\ IsVector
    /\ \E v \in Operands :
        /\ Cardinality(DOMAIN self) < 4
        /\ Apply("cross", <<v>>, IF Cardinality(DOMAIN self) = 2 THEN Vector2_cross(self, v)
                                                                  ELSE Vector3_cross(self, v))

\* self += v, self -= v, self *= s, self /= s
VectorAddAssign ==
    /\ op = "none"
    /\ IsVector
    /\ \E v \in Operands :
        /\ ApplyAssign("add_assign", <<v>>, Vector_add_assign(self, v))

VectorSubAssign ==
    /\ op = "none"
    /\ IsVector
    /\ \E v \in Operands :
        /\ ApplyAssign("sub_assign", <<v>>, Vector_sub_assign(self, v))

VectorMulAssign ==
    /\ op = "none"
    /\ IsVector
    /\ \E s \in Scalars :
        /\ ApplyAssign("mul_assign", <<s>>, Vector_mul_assign(self, s))

VectorDivAssign ==
    /\ op = "none"
    /\ IsVector
    /\ \E s \in Scalars :
        /\ ApplyAssign("div_assign", <<s>>, Vector_div_assign(self, s))

\* self.name() for an accessor name of self's type
Swizzle ==
    /\ op = "none"
    /\ IsVector
    /\ \E name \in DOMAIN swizzles(self) :
        /\ Apply("swizzle", <<name>>, swizzle(self, name))

InitVector == Start(VectorCtors)

NextVector ==
    \/ VectorAdd
    \/ VectorSub
    \/ VectorMulF32
    \/ VectorNeg
    \/ F32MulVector
    \/ VectorDivF32
    \/ VectorDot
    \/ VectorCross
    \/ VectorAddAssign
    \/ VectorSubAssign
    \/ VectorMulAssign
    \/ VectorDivAssign
    \/ Swizzle

SpecVector == InitVector /\ [][NextVector]_vars

\* self * (self / v) and v * (self / v) for Vector3
DotCross ==
    /\ op = "none"
    /\ IsVectorNew
    /\ \E v \in Operands :
        /\ Cardinality(DOMAIN self) = 3
        /\ Apply("dot_cross", <<v>>,
                 <<Vector_dot(self, Vector3_cross(self, v)), Vector_dot(v, Vector3_cross(self, v))>>)

\* VectorN::lerp(&self, &b, t)
Lerp ==
    /\ op = "none"
    /\ IsVectorNew
    /\ \E b \in Operands, t \in Scalars :
        /\ Apply("lerp", <<b, t>>, lerp(self, b, t))

Magnitude ==
    /\ IsVectorNew
    /\ Apply("magnitude", <<>>, magnitude(self))

Normalization ==
    /\ IsVectorNew
    /\ Apply("normalization", <<>>, normalization(self))

\* VectorN::angle(&self, &b), angle_safe(&self, &b), Vector2::angle_signed(&self, &b)
AngleOp ==
    /\ op = "none"
    /\ IsVectorNew
    /\ \E b \in Operands :
        /\ Apply("angle", <<b>>, angle(self, b))

AngleSafe ==
    /\ op = "none"
    /\ IsVectorNew
    /\ \E b \in Operands :
        /\ Apply("angle_safe", <<b>>, angle_safe(self, b))

AngleSigned ==
    /\ op = "none"
    /\ IsVectorNew
    /\ \E b \in Operands :
        /\ Cardinality(DOMAIN self) = 2
        /\ Apply("angle_signed", <<b>>, angle_signed(self, b))

NextGeometry ==
    \/ DotCross
    \/ Lerp
    \/ Magnitude
    \/ Normalization
    \/ AngleOp
    \/ AngleSafe
    \/ AngleSigned

\* the geometric operations are applied to vectors built by VectorN::new
InitGeometry == Start(VectorNewCtors)

SpecGeometry == InitGeometry /\ [][NextGeometry]_vars

Init == Start(MatrixCtors \cup RotationCtors \cup NumberCtors \cup VectorCtors)

Next ==
    \/ NextMatrix
    \/ NextMatrixArith
    \/ NextNumber
    \/ NextVector
    \/ NextGeometry

Spec == Init /\ [][Next]_vars

----------------------------------------------------------------------------
(* Claims *)

\* the entry at row r, column c of the row-major list given to MatrixN::new
ListEntry(r, c) == ctor.args[Dim(self) * r + c]

\* row r and column c of that list, as vectors
ListRow(r)    == VectorN_new([k \in 0..(Dim(self) - 1) |-> ListEntry(r, k)])
ListColumn(c) == VectorN_new([k \in 0..(Dim(self) - 1) |-> ListEntry(k, c)])

NonSingular == ~FEq(determinant(self), F(0))

\* C1: for every non-singular matrix M, M * M.inverse() is the identity matrix
C1_InverseIdentity ==
    (IsMatrix /\ op = "mul_inverse" /\ NonSingular)
        => res = Matrix_identity(Dim(self))

\* C2: for every matrix M, singular or not, M * M.adjugate() is
\* M.determinant() * identity()
C2_AdjugateIdentity ==
    (IsMatrix /\ op = "mul_adjugate")
        => res = f32_mul_Matrix(determinant(self), Matrix_identity(Dim(self)))

C2_Witness ==
    /\ IsMatrix /\ op = "mul_adjugate"
    /\ Dim(self) = 4
    /\ self # transpose(self)
    /\ determinant(self) = F(0)
    /\ adjugate(self) # Matrix_zero(4)
    /\ res = Matrix_zero(4)

\* C3: determinant() and determinant2() return the same value for every matrix,
\* and both return -2 for Matrix2::new(1, 2, 3, 4)
C3_DeterminantsAgree ==
    /\ (IsMatrix /\ op = "determinant2") => FEq(res, determinant(self))
    /\ (/\ ctor = Call("Matrix_new", Arr(<<F(1), F(2), F(3), F(4)>>))
        /\ op \in {"determinant", "determinant2"}) => res = F(-2)

\* C4: for every matrix whose determinant() is exactly 0, inverse() and the
\* unary ! both return the zero matrix of that size
C4_SingularInverseIsZero ==
    (IsMatrix /\ op \in {"inverse", "not"} /\ FEq(determinant(self), F(0)))
        => res = Matrix_zero(Dim(self))

C4_Witness ==
    /\ IsMatrix /\ op = "inverse"
    /\ Dim(self) = 3
    /\ self # Matrix_zero(3)
    /\ determinant(self) = F(0)
    /\ res = Matrix_zero(3)

\* C5: Complex(a, b) * Complex(c, d) has real part a*c - b*d and imaginary part
\* a*d + b*c
C5_ComplexMul ==
    (ctor.kind = "Complex_new" /\ op = "mul")
        => LET a == self.r  b == self.i  c == arg[1].r  d == arg[1].i
           IN  /\ res.r = FSub(FMul(a, c), FMul(b, d))
               /\ res.i = FAdd(FMul(a, d), FMul(b, c))

\* C6: Dual(a, b) * Dual(c, d) has real part a*c and infinitesimal part a*d + b*c
C6_DualMul ==
    (ctor.kind = "Dual_new" /\ op = "mul")
        => LET a == self.r  b == self.e  c == arg[1].r  d == arg[1].e
           IN  /\ res.r = FMul(a, c)
               /\ res.e = FAdd(FMul(a, d), FMul(b, c))

\* C7: for a matrix built by MatrixN::new from a row-major list, row(i) is the
\* i-th row of the list, column(j) its j-th column, diagonal() its entries (k, k)
C7_RowColumnDiagonal ==
    ctor.kind = "Matrix_new" =>
        /\ op = "row" => res = ListRow(arg[1])
        /\ op = "column" => res = ListColumn(arg[1])
        /\ op = "diagonal" =>
              res = VectorN_new([k \in 0..(Dim(self) - 1) |-> ListEntry(k, k)])

\* C8: the floats behind as_ptr() of a matrix built by MatrixN::new are the list
\* in column-major order: flat index N*c + r holds the list entry at row r, column c
C8_AsPtrColumnMajor ==
    (ctor.kind = "Matrix_new" /\ op = "as_ptr")
        => \A r, c \in 0..(Dim(self) - 1) : res[Dim(self) * c + r] = ListEntry(r, c)

C8_Witness ==
    /\ ctor.kind = "Matrix_new" /\ op = "as_ptr"
    /\ Dim(self) = 4
    /\ ListEntry(0, 1) # ListEntry(1, 0)
    /\ res[1] = ListEntry(1, 0)

\* C9: Matrix4::translation(v) is the identity matrix except that its last
\* column, as returned by column(3), is (v.x, v.y, v.z, 1)
C9_Translation ==
    (ctor.kind = "Matrix4_translation" /\ op = "column")
        => IF arg[1] = 3
           THEN res = Vector4_new(ctor.args[0], ctor.args[1], ctor.args[2], F(1))
           ELSE res = column(Matrix_identity(4), arg[1])

\* C10: Vector2 Q1..Q4 are four pairwise distinct vectors with every component
\* +1 or -1, Vector3 Q1..Q8 eight such vectors, and each Qkn is Qk with every
\* component scaled by 1/sqrt(2) (2D) or 1/sqrt(3) (3D)
C10_QuadrantsOctants ==
    LET k == ctor.args[0][1]
        n == ctor.args[1][1]
        unit(v) == \A f \in DOMAIN v : v[f] \in {F(1), F(-1)}
    IN  /\ (ctor.kind = "Vector2_Q" /\ op = "none") =>
              IF n = 0
              THEN unit(self) /\ \A j \in (1..4) \ {k} : Vector2_Q(j, 0) # self
              ELSE self = Vector_mul_f32(Vector2_Q(k, 0), SQRT2OVER2)
        /\ (ctor.kind = "Vector3_Q" /\ op = "none") =>
              IF n = 0
              THEN unit(self) /\ \A j \in (1..8) \ {k} : Vector3_Q(j, 0) # self
              ELSE self = Vector_mul_f32(Vector3_Q(k, 0), SQRT3OVER3)

\* the accessor name spelt by a sequence of component letters
RECURSIVE Word(_)
Word(s) == IF s = <<>> THEN "" ELSE Head(s) \o Word(Tail(s))

\* the sequences of N letters among the first N of x, y, z, w
Selections(N) == [1..N -> {<<"x", "y", "z", "w">>[k] : k \in 1..N}]

\* C11: every with-repetition selection of components is an accessor (4 for
\* Vector2, 27 for Vector3, 256 for Vector4); an accessor returns the vector
\* whose k-th component is the source component named by the k-th letter of
\* its name, and leaves the source vector as it was
C11_Swizzles ==
    LET N == Cardinality(DOMAIN self)
    IN  /\ (ctor.kind = "Vector_new" /\ op = "none") =>
              /\ \A s \in Selections(N) : Word(s) \in DOMAIN swizzles(self)
              /\ Cardinality(DOMAIN swizzles(self)) = (CASE N = 2 -> 4 [] N = 3 -> 27 [] N = 4 -> 256)
        /\ op = "swizzle" =>
              /\ self = Construct(ctor)
              /\ \E s \in Selections(N) :
                    /\ Word(s) = arg[1]
                    /\ res = VectorN_new([k \in 0..(N - 1) |-> self[s[k + 1]]])

C11_Witness ==
    /\ op = "swizzle"
    /\ arg[1] = "wzyx"
    /\ Cardinality({self.x, self.y, self.z, self.w}) = 4
    /\ res = Vector4_new(self.w, self.z, self.y, self.x)

\* C12: for all Vector3 a and b, a * (a / b) = 0 and b * (a / b) = 0
C12_CrossOrthogonal ==
    op = "dot_cross" => (res[1] = F(0) /\ res[2] = F(0))

C12_Witness ==
    /\ op = "dot_cross"
    /\ \A k \in {"x", "y", "z"} : Vector3_cross(self, arg[1])[k] # F(0)
    /\ res = <<F(0), F(0)>>

\* C13: lerp(a, b, t) is a + (b - a) * t in every component, for every t:
\* a at t = 0, b at t = 1, 2b - a at t = 2, and (5, 5) for
\* lerp((0, 0), (10, 10), 0.5)
C13_LerpUnclamped ==
    op = "lerp" =>
        LET a == self  b == arg[1]  t == arg[2]
        IN  /\ \A k \in DOMAIN a : res[k] = FAdd(a[k], FMul(FSub(b[k], a[k]), t))
            /\ t = F(0) => res = a
            /\ t = F(1) => res = b
            /\ t = F(2) => \A k \in DOMAIN a : res[k] = FSub(FMul(F(2), b[k]), a[k])
            /\ (a = Vector2_new(F(0), F(0)) /\ b = Vector2_new(F(10), F(10)) /\ t = Rat(1, 2))
                  => res = Vector2_new(F(5), F(5))

C13_Witness ==
    /\ op = "lerp"
    /\ arg[2] = F(2)
    /\ self = Vector2_new(F(0), F(0))
    /\ arg[1] = Vector2_new(F(10), F(10))
    /\ res = Vector2_new(F(20), F(20))

\* C14: angle_safe(a, b) is NaN whenever |a| * |b| <= EPSILON, in particular
\* when a or b is the zero vector, and otherwise it is what angle(a, b) returns
C14_AngleSafe ==
    op = "angle_safe" =>
        LET a == self  b == arg[1]
            zero(v) == \A k \in DOMAIN v : v[k] = F(0)
        IN  /\ (zero(a) \/ zero(b)) => IsNaN(res)
            /\ IF FLe(FMul(magnitude(a), magnitude(b)), EPSILON)
               THEN IsNaN(res)
               ELSE res = angle(a, b)

C14_Witness ==
    /\ op = "angle_safe"
    /\ FMul(magnitude(self), magnitude(arg[1])) = EPSILON
    /\ ~IsNaN(angle(self, arg[1]))
    /\ IsNaN(res)

\* C15: no call terminates the process: whatever the arguments, an index at or
\* above the dimension included, row, column, minor and cofactor return a value
C15_NoPanic == op # "panic"

\* C16: the binary vector operators leave both operands as they were; an
\* in-place operator changes only its left operand a, and leaves in it what
\* the binary operator of the same name returns
C16_VectorFrame ==
    [][ /\ op' \in {"add", "sub", "dot", "cross"} =>
              (self' = self /\ arg'[1] \in Operands)
        /\ op' \in {"mul_f32", "f32_mul", "div_f32"} =>
              (self' = self /\ arg'[1] \in Scalars)
        /\ op' = "neg" => self' = self
        /\ op' = "add_assign" =>
              (arg'[1] \in Operands /\ self' = Vector_add(self, arg'[1]))
        /\ op' = "sub_assign" =>
              (arg'[1] \in Operands /\ self' = Vector_sub(self, arg'[1]))
        /\ op' = "mul_assign" =>
              (arg'[1] \in Scalars /\ self' = Vector_mul_f32(self, arg'[1]))
        /\ op' = "div_assign" =>
              (arg'[1] \in Scalars /\ self' = Vector_div_f32(self, arg'[1]))
      ]_vars

C16_Witness ==
    /\ op = "div_assign"
    /\ arg[1] = F(2)
    /\ self # Construct(ctor)
    /\ self = Vector_div_f32(Construct(ctor), F(2))

C18_AngleSymmetric ==
    op = "angle" => FEq(res, angle(arg[1], self))

\* C18 as amended: angle(a, b) and angle(b, a) return the same value; they are
\* == when that value is a number, and both are NaN otherwise
C18_AngleSymmetricOrNaN ==
    op = "angle" =>
        LET r == angle(arg[1], self)
        IN  IF IsNaN(res) THEN IsNaN(r) ELSE FEq(res, r)

C18_Witness ==
    /\ op = "angle"
    /\ Vector_dot(self, self) # Vector_dot(arg[1], arg[1])
    /\ ~IsNaN(res)
    /\ res \notin {Angle(0, F(0)), Angle(1, F(0)), Angle(2, F(0))}
    /\ res = angle(arg[1], self)

\* C19: for every non-zero vector v, normalization(v) has magnitude 1 and is
\* its own normalization; Vector2(3, 4) has magnitude 5 and normalizes to
\* (3/5, 4/5)
C19_Normalization ==
    /\ (op = "normalization" /\ \E k \in DOMAIN self : self[k] # F(0)) =>
          (magnitude(res) = F(1) /\ normalization(res) = res)
    /\ (op = "magnitude" /\ self = Vector2_new(F(3), F(4))) => res = F(5)
    /\ (op = "normalization" /\ self = Vector2_new(F(3), F(4)))
          => res = Vector2_new(Rat(3, 5), Rat(4, 5))

C19_Witness ==
    /\ op = "normalization"
    /\ \A k \in DOMAIN self : self[k] # F(0)
    /\ Len(res.x) = 3
    /\ magnitude(res) = F(1)

\* C20: from_vectorN(v0, .., v(N-1)) stores the vectors as its columns:
\* column(i) returns v_i, and from_vectorN(M.column(0), .., M.column(N-1)) is M
C20_FromVectorsColumns ==
    /\ (ctor.kind = "Matrix_from_vectors" /\ op = "column") =>
          res = VectorN_new([k \in 0..(Dim(self) - 1) |-> ctor.args[Dim(self) * arg[1] + k]])
    /\ (IsMatrix /\ op = "from_columns") => res = self

C20_Witness ==
    /\ ctor.kind = "Matrix_from_vectors" /\ op = "column"
    /\ Dim(self) = 4
    /\ arg[1] = 1
    /\ res # row(self, 1)
    /\ res = VectorN_new([k \in 0..3 |-> ctor.args[4 + k]])

\* the list given to MatrixN::new with row i and column j left out, in the order it is written
ListWithout(i, j) ==
    LET N == Dim(self)
        from(r, x) == IF r < x THEN r ELSE r + 1
    IN  [k \in 0..((N - 1) * (N - 1) - 1) |->
            ListEntry(from(k \div (N - 1), i), from(k % (N - 1), j))]

\* C21: for a matrix built by new from a row-major list, minor(i, j) is the
\* next-smaller matrix built from the list entries outside row i and column j,
\* in their order; for Matrix2 it is the list entry at row 1 - i, column 1 - j
C21_MinorDeletesRowAndColumn ==
    (ctor.kind = "Matrix_new" /\ op = "minor") =>
        IF Dim(self) = 2
        THEN res = ListEntry(1 - arg[1], 1 - arg[2])
        ELSE res = MatrixN_new(ListWithout(arg[1], arg[2]))

\* C22: the sign factor of cofactor(i, j) is +1 when i + j is even and -1 when
\* it is odd, and cofactor(i, j) is determinant(minor(i, j)) times that sign
\* (for Matrix2 the minor is itself the number)
C22_CofactorSign ==
    (IsMatrix /\ op = "cofactor") =>
        LET i == arg[1]
            j == arg[2]
            sign == IF (i + j) % 2 = 0 THEN F(1) ELSE F(-1)
        IN  /\ cofactor_sign(i, j) = sign
            /\ res = FMul(IF Dim(self) = 2 THEN minor(self, i, j)
                          ELSE determinant(minor(self, i, j)), sign)

C22_Witness ==
    /\ IsMatrix /\ op = "cofactor"
    /\ Dim(self) = 4
    /\ arg = <<2, 1>>
    /\ res # F(0)
    /\ res = FNeg(determinant(minor(self, 2, 1)))

\* C23 as stated: the entry of M.cofactor_matrix() at storage position [i][j]
\* is M.cofactor(j, i)
C23_CofactorMatrixTransposed ==
    (IsMatrix /\ op = "cofactor_matrix") =>
        \A i, j \in 0..(Dim(self) - 1) : res[i][j] = cofactor(self, j, i)

\* C23 amended: the entry of M.cofactor_matrix() at storage position [i][j],
\* which is component j of row(i), is M.cofactor(i, j): the order (j, i) of the
\* pushes is undone by the constructor, and the grid is stored as it is
C23_CofactorMatrixGrid ==
    (IsMatrix /\ op = "cofactor_matrix") =>
        \A i, j \in 0..(Dim(self) - 1) :
            /\ res[i][j] = cofactor(self, i, j)
            /\ Components(row(res, i))[j] = cofactor(self, i, j)

C23_Witness ==
    /\ IsMatrix /\ op = "cofactor_matrix"
    /\ Dim(self) = 3
    /\ res[0][1] # res[1][0]
    /\ res[0][1] = cofactor(self, 0, 1)

\* C24: triangular_lower() and triangular_upper() never divide by a zero pivot:
\* no entry of the result is NaN or infinite
C24_TriangularGuarded ==
    (IsMatrix /\ op \in {"triangular_lower", "triangular_upper"}) =>
        \A i, j \in 0..(Dim(self) - 1) : IsFinite(res[i][j])

\* component i of column(j) of a matrix
ColumnEntry(m, j, i) == Components(column(m, j))[i]

\* the pivots of triangular_lower are the components k of its columns k < N - 1,
\* those of triangular_upper the components k of its columns k > 0
PivotsNonZero ==
    \A k \in 0..(Dim(self) - 1) :
        (IF op = "triangular_lower" THEN k < Dim(self) - 1 ELSE k > 0)
            => (IsFinite(ColumnEntry(res, k, k)) /\ ColumnEntry(res, k, k) # F(0))

C26_IdentityNeutral ==
    (IsMatrix /\ op \in {"identity_mul", "mul_identity", "mul_scale_uniform"})
        => res = self

\* the matrix an in-place operator was applied to
Before == Construct(ctor)

\* C27: A + B and A - B are element-wise, (A + B)[i][j] = A[i][j] + B[i][j] and
\* (A - B)[i][j] = A[i][j] - B[i][j] at every position, and A + B is the value
\* A += B leaves in A
C27_AddSubElementwise ==
    /\ (IsMatrix /\ op = "add") =>
          \A i, j \in 0..(Dim(self) - 1) : res[i][j] = FAdd(self[i][j], arg[1][i][j])
    /\ (IsMatrix /\ op = "sub") =>
          \A i, j \in 0..(Dim(self) - 1) : res[i][j] = FSub(self[i][j], arg[1][i][j])
    /\ (IsMatrix /\ op = "add_assign") => self = Matrix_add(Before, arg[1])
    /\ (IsMatrix /\ op = "sub_assign") => self = Matrix_sub(Before, arg[1])

\* C28: M * s and s * M hold s * M[i][j] at every position [i][j], and M / s
\* holds M[i][j] / s there for s # 0
C28_ScalarKeepsPlace ==
    /\ (IsMatrix /\ op \in {"mul_f32", "f32_mul"}) =>
          \A i, j \in 0..(Dim(self) - 1) : res[i][j] = FMul(arg[1], self[i][j])
    /\ (IsMatrix /\ op = "div_f32" /\ arg[1] # F(0)) =>
          \A i, j \in 0..(Dim(self) - 1) : res[i][j] = FDiv(self[i][j], arg[1])

\* C29: M *= s multiplies every entry of a Matrix2, Matrix3 or Matrix4 by s,
\* once
C29_MulAssignOnce ==
    (IsMatrix /\ op = "mul_assign") =>
        \A i, j \in 0..(Dim(self) - 1) : self[i][j] = FMul(Before[i][j], arg[1])

\* v is one of the three unit axes
IsAxis(v) == v \in {UnitX, UnitY, UnitZ}

\* C30: each axis-specific rotation constructor returns the matrix the axis-angle
\* constructor returns for the same angle and the unit axis (rotation_x(t) ==
\* rotation(t, (1,0,0)), rotation_y(t) == rotation(t, (0,1,0)), rotation_z(t) ==
\* rotation(t, (0,0,1))), and at t = 0 all four constructors return the identity matrix
C30_RotationAgree ==
    (op = "none" /\ ctor.kind \in {"Matrix4_rotation_x", "Matrix4_rotation_y",
                                   "Matrix4_rotation_z", "Matrix4_rotation"}) =>
        /\ ctor.kind = "Matrix4_rotation_x" => self = Matrix4_rotation(ctor.args[0], UnitX)
        /\ ctor.kind = "Matrix4_rotation_y" => self = Matrix4_rotation(ctor.args[0], UnitY)
        /\ ctor.kind = "Matrix4_rotation_z" => self = Matrix4_rotation(ctor.args[0], UnitZ)
        /\ (ctor.args[0] = Angle(0, F(0))
                /\ (ctor.kind = "Matrix4_rotation" =>
                        IsAxis(Vector3_new(ctor.args[1], ctor.args[2], ctor.args[3]))))
             => self = Matrix_identity(4)

=============================================================================
